---- MODULE Spec2Model ----
(***************************************************************************)
(* Verification model of the rename engine of wsekete/vpars3:              *)
(* PDFModifier.modify_fields and the helpers it calls                      *)
(* (src/src/pdf_enrichment/pdf_modifier.py), run against a form access     *)
(* layer that behaves like the repository's MockPdfWrapper                 *)
(* (src/tests/conftest.py).                                                *)
(*                                                                         *)
(* A document is a function from field names to widgets; a widget is a     *)
(* record of property values.  Files hold documents, PdfWrapper objects    *)
(* hold an in-memory copy of the document they were loaded from.           *)
(***************************************************************************)
EXTENDS Integers, Sequences, FiniteSets, TLC

VARIABLES
    files,              \* path -> the file stored there (NoFile: none)
    pc,                 \* position of the modify_fields call; "returned": it
                        \* returned at line 195, "failed": from an except clause
    output_path,        \* the output location of the call
    field_mappings,     \* the mapping, in iteration order: <<old, new>> pairs
    preserve_original,  \* flag of the call
    validate_mappings,  \* flag of the call
    backup_path,        \* local backup_path of modify_fields (None or a path)
    pdf,                \* widgets of the wrapper loaded from pdf_path
    pdf_copy,           \* widgets of the wrapper loaded from output_path
    pass,               \* 1: _apply_field_modifications(pdf), 2: (pdf_copy)
    idx,                \* entries of the mapping the running pass has handled
    modifications,      \* local list of the running _apply_field_modifications
    errors,             \* local list of the running _apply_field_modifications
    warnings,           \* local list of the running _apply_field_modifications
    ret,                \* what modify_fields unpacked at line 136
    field_count_before, \* local of modify_fields
    field_count_after,  \* local of modify_fields
    result,             \* the FieldModificationResult returned, or NoResult
    hasUpdate,          \* hasattr(pdf, 'update_widget_key'), known once the
                        \* wrapper is loaded
    readOnly,           \* the properties setattr refuses on a widget, known
                        \* once the wrapper is loaded
    fates,              \* access-layer outcome per mapping entry (first pass)
    commitFate,         \* access-layer outcome of the bulk commit (first pass)
    src0,               \* history: the source file when the call started
    renameCalls,        \* history: number of update_widget_key calls
    log                 \* history: what each pass did, entry by entry

\* The state of a modify_fields call.
modifierVars ==
    <<files, pc, output_path, field_mappings, preserve_original,
      validate_mappings, backup_path, pdf, pdf_copy, pass, idx,
      modifications, errors, warnings, ret, field_count_before,
      field_count_after, result, hasUpdate, readOnly, fates, commitFate,
      src0, renameCalls, log>>

VARIABLES
    bemName,            \* the name a _is_valid_bem_name call is given, as
                        \* its characters
    namePieces,         \* the number of pieces the name was made of
    isValid             \* what the call returned ("pending": not yet called)

\* The state of a _is_valid_bem_name call.
validatorVars == <<bemName, namePieces, isValid>>

VARIABLES
    installed,          \* the libraries that can be imported
    detection_cache,    \* EnhancedFieldDetector.detection_cache: cache_key ->
                        \* FieldDetectionResult (NoDetection: no entry)
    detPc,              \* position of the detect_all_fields call
    cache_key,          \* local of the detect_all_fields call: str(pdf_path)
    detection,          \* local `result` of the detect_all_fields call
    returned,           \* history: what the detect_all_fields calls
                        \* returned, in the order of the calls
    detCalls,           \* history: number of detect_all_fields calls
    uncachedCalls,      \* history: number of calls that missed the cache
    strategyRuns,       \* history: strategy -> number of times it was run
    opened,             \* history: number of times a library opened the
                        \* document
    outcomes,           \* history: strategy -> how its last run ended
    returnedFields,     \* history: strategy -> the names its last run returned
    document            \* the file at the path: the number of times it was
                        \* written since the detector was made (version),
                        \* and the version each detect_all_fields call
                        \* found there (history)

\* The state of an EnhancedFieldDetector and of a detect_all_fields call.
detectorVars ==
    <<installed, detection_cache, detPc, cache_key, detection, returned, detCalls,
      uncachedCalls, strategyRuns, opened, outcomes, returnedFields, document>>

VARIABLES
    field_cache,        \* FieldAnalyzer.field_cache: cache_key -> list of
                        \* FormField (a function of the keys it holds)
    radioCall,          \* the detect_radio_groups call: its position (pc),
                        \* its argument form_fields, its locals, and with
                        \* each group of combined_groups, which it returns,
                        \* the strategy the group is from (history)
    extracted           \* history: how the extract_form_fields calls
                        \* ended, in the order of the calls, and whether
                        \* PdfWrapper loaded the document for the call

\* The state of a FieldAnalyzer and of a detect_radio_groups call.
analyzerVars == <<field_cache, radioCall, extracted>>

VARIABLES
    probe               \* a field name and what _determine_field_type and
                        \* _process_field_normalization made of it

\* The state of the calls of the name helpers of the detector.
namingVars == <<probe>>

VARIABLES
    loop                \* the event loop of the web application: the request
                        \* it is running (0: none), the position of every
                        \* modify_pdf request, and the rename calls made so
                        \* far, in the order they were made (history)

\* The state of the event loop and of the requests it serves.
loopVars == <<loop>>

\* What the specification of modify_fields leaves alone.
notModifierVars ==
    <<validatorVars, detectorVars, analyzerVars, namingVars, loopVars>>

\* What the specification of _is_valid_bem_name leaves alone.
notValidatorVars ==
    <<modifierVars, detectorVars, analyzerVars, namingVars, loopVars>>

\* What detect_all_fields leaves alone.
notDetectorVars ==
    <<modifierVars, validatorVars, analyzerVars, namingVars, loopVars>>

\* What the FieldAnalyzer leaves alone.
notAnalyzerVars ==
    <<modifierVars, validatorVars, detectorVars, namingVars, loopVars>>

\* What the name helpers leave alone.
notNamingVars ==
    <<modifierVars, validatorVars, detectorVars, analyzerVars, loopVars>>

\* What the event loop leaves alone.
notLoopVars ==
    <<modifierVars, validatorVars, detectorVars, analyzerVars, namingVars>>

vars ==
    <<modifierVars, validatorVars, detectorVars, analyzerVars, namingVars,
      loopVars>>

(***************************************************************************)
(* Bounds of the model.                                                    *)
(***************************************************************************)
MaxMappings == 2    \* most entries a mapping holds

(***************************************************************************)
(* Field names.  TLC cannot index a string, so every name comes with its   *)
(* characters.  "F" stands for an original name such as "firstName"        *)
(* (uppercase), "a_b" for a well-formed block_element name, "id_x" for a   *)
(* block_element name whose block is a reserved word.  Each of them can be *)
(* the name of a field of the document and the target of a mapping entry.  *)
(***************************************************************************)
Names == {"F", "a_b", "id_x"}

TargetNames == Names

Chars(name) ==
    CASE name = "F" -> <<"F">>
      [] name = "id_x" -> <<"i", "d", "_", "x">>
      [] name = "a_b" -> <<"a", "_", "b">>

LowerChars == {"a", "b", "c", "d", "e", "f", "g", "h", "i", "j", "k", "l", "m",
               "n", "o", "p", "q", "r", "s", "t", "u", "v", "w", "x", "y", "z"}

DigitChars == {"0", "1", "2", "3", "4", "5", "6", "7", "8", "9"}

UpperChars == {"A", "B", "C", "D", "E", "F", "G", "H", "I", "J", "K", "L", "M",
               "N", "O", "P", "Q", "R", "S", "T", "U", "V", "W", "X", "Y", "Z"}

\* [a-z][a-z0-9-]*
IsBemWord(s) ==
    /\ Len(s) >= 1
    /\ s[1] \in LowerChars
    /\ \A i \in 2..Len(s) : s[i] \in LowerChars \cup DigitChars \cup {"-"}

\* (?:_[a-z][a-z0-9-]*)?
IsOptElement(s) ==
    \/ s = <<>>
    \/ /\ Len(s) >= 2
       /\ s[1] = "_"
       /\ IsBemWord(SubSeq(s, 2, Len(s)))

\* (?:__[a-z][a-z0-9-]*|--group)?
IsOptSuffix(s) ==
    \/ s = <<>>
    \/ /\ Len(s) >= 3
       /\ s[1] = "_"
       /\ s[2] = "_"
       /\ IsBemWord(SubSeq(s, 3, Len(s)))
    \/ s = <<"-", "-", "g", "r", "o", "u", "p">>

\* s is block, optional element, optional suffix.
MatchesBemBody(s) ==
    \E i \in 1..Len(s) : \E j \in i..Len(s) :
        /\ IsBemWord(SubSeq(s, 1, i))
        /\ IsOptElement(SubSeq(s, i + 1, j))
        /\ IsOptSuffix(SubSeq(s, j + 1, Len(s)))

\* re.match(bem_pattern, name) is not None.  The `$` of the pattern matches
\* at the end of the string and before a newline that ends the string.
MatchesBemPattern(s) ==
    \/ MatchesBemBody(s)
    \/ /\ Len(s) >= 1
       /\ s[Len(s)] = "\n"
       /\ MatchesBemBody(SubSeq(s, 1, Len(s) - 1))

IsValidBemName(name) == MatchesBemPattern(Chars(name))

(***************************************************************************)
(* Documents and widgets.  A widget carries its class (the name of its     *)
(* Python type) and its properties; "None" is Python's None.              *)
(***************************************************************************)
None == "None"

\* A path that holds no file, a wrapper not yet loaded, a result not yet built.
NoFile == [exists |-> FALSE, widgets |-> <<>>]

NoPdf == <<>>

NoResult ==
    [modifications |-> <<>>, success |-> FALSE, errors |-> <<>>,
     warnings |-> <<>>, field_count_before |-> -1, field_count_after |-> -1]

NoRet == [modifications |-> <<>>, errors |-> <<>>, warnings |-> <<>>]

FileOf(doc) == [exists |-> TRUE, widgets |-> doc]

Paths == {"src", "out", "bak"}

\* "required" and "max_length" are keys of preserve_properties, "rect" is one
\* of the additional_props.
PropertyKeys == {"required", "max_length", "rect"}

SrcWidget(name) ==
    CASE name = "F" ->
           [cls |-> "Text", required |-> "False", max_length |-> "40",
            rect |-> "r1"]
      [] name = "a_b" ->
           [cls |-> "Checkbox", required |-> "True", max_length |-> None,
            rect |-> "r2"]
      [] name = "id_x" ->
           [cls |-> "Signature", required |-> None, max_length |-> None,
            rect |-> "r3"]

\* The documents a source file can hold: any set of the names as fields.
Documents == {[n \in S |-> SrcWidget(n)] : S \in SUBSET Names}

Entries == Names \X TargetNames

Keys(m) == {m[i][1] : i \in 1..Len(m)}

\* A dict: no key twice, iterated in insertion order.
Mappings ==
    {m \in UNION {[1..k -> Entries] : k \in 0..MaxMappings} :
        \A i, j \in 1..Len(m) : m[i][1] = m[j][1] => i = j}

(***************************************************************************)
(* The form access layer.                                                  *)
(***************************************************************************)
\* MockPdfWrapper.update_widget_key: the widget moves to the new key.
UpdateWidgetKey(widgets, old_name, new_name) ==
    IF old_name \in DOMAIN widgets
    THEN [n \in (DOMAIN widgets \ {old_name}) \cup {new_name} |->
              IF n = new_name THEN widgets[old_name] ELSE widgets[n]]
    ELSE widgets

\* What a call of update_widget_key can do: rename the key, raise, or
\* return without the new key resolving.
RenameFates == {"renamed", "raise", "noop"}

\* The properties of a widget that setattr can refuse to set.
UnsettableChoices == {{}, {"required"}}

\* What the bulk commit can do: return, raise, or not be there
\* (hasattr(pdf, 'commit_widget_key_updates') is false).
CommitFates == {"ok", "raise", "missing"}

NoFate == [rename |-> "none", unsettable |-> {}]

(***************************************************************************)
(* Helpers of PDFModifier.                                                 *)
(***************************************************************************)
\* _extract_widget_properties: every listed attribute that is not None.
ExtractWidgetProperties(widget) ==
    [k \in {p \in PropertyKeys : widget[p] # None} |-> widget[k]]

\* _restore_widget_properties: setattr for every snapshot property; a
\* property that cannot be set is skipped.
RestoreWidgetProperties(widget, properties, unsettable) ==
    [k \in DOMAIN widget |->
        IF k \in DOMAIN properties /\ k \notin unsettable
        THEN properties[k]
        ELSE widget[k]]

\* _get_field_type_from_widget
GetFieldTypeFromWidget(widget) ==
    CASE widget.cls = "Text" -> "TextField"
      [] widget.cls = "Checkbox" -> "Checkbox"
      [] widget.cls = "Signature" -> "Signature"
      [] OTHER -> "TextField"

\* A validation that leaves out the check of the keys against the fields of
\* the document (lines 264-269).
ValidateTargetsOnly(widgets, m) ==
    LET duplicates == {m[i][2] : i \in {k \in 1..Len(m) :
                          \E l \in 1..Len(m) : l # k /\ m[l][2] = m[k][2]}}
        invalid_names == SelectSeq(m, LAMBDA e : ~IsValidBemName(e[2]))
    IN (IF duplicates # {} THEN << <<"duplicate_targets", duplicates>> >> ELSE <<>>)
       \o (IF invalid_names # <<>> THEN << <<"invalid_bem_names", invalid_names>> >> ELSE <<>>)

\* _validate_field_mappings: the list of error messages.
ValidateFieldMappings(widgets, m) ==
    LET existing_fields == DOMAIN widgets
        missing == SelectSeq(m, LAMBDA e : e[1] \notin existing_fields)
        missingErrors == [i \in 1..Len(missing) |-> <<"source_not_found", missing[i][1]>>]
        duplicates == {m[i][2] : i \in {k \in 1..Len(m) :
                          \E l \in 1..Len(m) : l # k /\ m[l][2] = m[k][2]}}
        invalid_names == SelectSeq(m, LAMBDA e : ~IsValidBemName(e[2]))
    IN missingErrors
       \o (IF duplicates # {} THEN << <<"duplicate_targets", duplicates>> >> ELSE <<>>)
       \o (IF invalid_names # <<>> THEN << <<"invalid_bem_names", invalid_names>> >> ELSE <<>>)

\* An except clause that hands back what the batch had recorded so far.
FatalResultWithModifications(message) ==
    [modifications |-> modifications, success |-> FALSE, errors |-> <<message>>,
     warnings |-> warnings, field_count_before |-> 0, field_count_after |-> 0]

\* The result every except clause of modify_fields returns.
FatalResult(message) ==
    [modifications |-> <<>>, success |-> FALSE, errors |-> <<message>>,
     warnings |-> <<>>, field_count_before |-> 0, field_count_after |-> 0]

(***************************************************************************)
(* Strings as sequences of characters.                                     *)
(***************************************************************************)
\* s.startswith(prefix)
StartsWith(s, prefix) ==
    Len(prefix) <= Len(s) /\ SubSeq(s, 1, Len(prefix)) = prefix

\* s.endswith(suffix)
EndsWith(s, suffix) ==
    /\ Len(suffix) <= Len(s)
    /\ SubSeq(s, Len(s) - Len(suffix) + 1, Len(s)) = suffix

\* part in s
Contains(s, part) ==
    \E i \in 1..(Len(s) - Len(part) + 1) : SubSeq(s, i, i + Len(part) - 1) = part

SmallLetters == <<"a", "b", "c", "d", "e", "f", "g", "h", "i", "j", "k", "l", "m",
                  "n", "o", "p", "q", "r", "s", "t", "u", "v", "w", "x", "y", "z">>

CapitalLetters == <<"A", "B", "C", "D", "E", "F", "G", "H", "I", "J", "K", "L", "M",
                    "N", "O", "P", "Q", "R", "S", "T", "U", "V", "W", "X", "Y", "Z">>

LowerChar(c) ==
    IF c \in UpperChars
    THEN SmallLetters[CHOOSE i \in 1..Len(CapitalLetters) : CapitalLetters[i] = c]
    ELSE c

\* s.lower()
Lower(s) == [i \in 1..Len(s) |-> LowerChar(s[i])]

\* s.replace(part, ""), for a part that is not empty
RECURSIVE Remove(_, _)
Remove(s, part) ==
    IF Len(s) < Len(part)
    THEN s
    ELSE IF StartsWith(s, part)
    THEN Remove(SubSeq(s, Len(part) + 1, Len(s)), part)
    ELSE <<s[1]>> \o Remove(Tail(s), part)

\* s.strip(chars)
RECURSIVE Strip(_, _)
Strip(s, chars) ==
    IF s = <<>>
    THEN s
    ELSE IF s[1] \in chars
    THEN Strip(Tail(s), chars)
    ELSE IF s[Len(s)] \in chars
    THEN Strip(SubSeq(s, 1, Len(s) - 1), chars)
    ELSE s

\* The list without the later occurrences of its elements.
RECURSIVE Dedupe(_)
Dedupe(list) ==
    IF list = <<>>
    THEN <<>>
    ELSE LET front == Dedupe(SubSeq(list, 1, Len(list) - 1))
             last == list[Len(list)]
         IN IF \E i \in 1..Len(front) : front[i] = last
            THEN front
            ELSE Append(front, last)

Elements(list) == {list[i] : i \in 1..Len(list)}

(***************************************************************************)
(* EnhancedFieldDetector                                                   *)
(* (src/Archived Modification Engine/components/enhanced_field_detector.py)*)
(* A field name is the sequence of its characters.                         *)
(***************************************************************************)
GroupSuffix == <<"-", "-", "g", "r", "o", "u", "p">>

\* EnhancedFieldDetector.field_prefixes, in the order of the table.
FieldPrefixes ==
    << <<"O", "W", "N", "E", "R", ".">>,
       <<"P", "R", "E", "M", "I", "U", "M", "_", "P", "A", "Y", "O", "R", ".">>,
       <<"P", "O", "L", "I", "C", "Y", "_", "O", "W", "N", "E", "R", ".">>,
       <<"P", "R", "I", "M", "A", "R", "Y", "_", "I", "N", "S", "U", "R", "E", "D", ".">>,
       <<"I", "N", "S", "U", "R", "E", "D", ".">>,
       <<"J", "O", "I", "N", "T", "_", "O", "W", "N", "E", "R", ".">> >>

\* The field names of the documents: a plain name, the same name under an
\* owner prefix, and the container of the radio group of that name.
DetNames ==
    { <<"x">>,
      <<"O", "W", "N", "E", "R", ".", "x">>,
      <<"x", "-", "-", "g", "r", "o", "u", "p">> }

\* What a library's enumeration gives for a widget that has no name.
NoName == <<>>

\* The one document the detector is asked about.
DetPaths == {"form.pdf"}

\* The four detection strategies, in the order detect_all_fields runs them,
\* and the library each of them imports.
Strategies == <<"pypdfform", "pymupdf", "pypdf2", "annotations">>

LibraryOf(strategy) ==
    CASE strategy = "pypdfform" -> "PyPDFForm"
      [] strategy = "pymupdf" -> "fitz"
      [] strategy = "pypdf2" -> "pypdf"
      [] strategy = "annotations" -> "fitz"

Libraries == {"PyPDFForm", "fitz", "pypdf"}

EmptyDict == <<>>

\* FieldDetectionResult.__init__
NewDetection ==
    [pypdfform_fields |-> <<>>, pymupdf_fields |-> <<>>, pypdf2_fields |-> <<>>,
     annotation_fields |-> <<>>, all_fields |-> {}, field_sources |-> EmptyDict,
     detection_errors |-> <<>>, detection_warnings |-> <<>>,
     normalized_fields |-> EmptyDict, field_prefixes |-> EmptyDict,
     field_types |-> EmptyDict, radio_groups |-> EmptyDict,
     accessible_fields |-> {}]

\* No FieldDetectionResult: a cache without the entry, a call that has not
\* returned.
NoDetection == [absent |-> TRUE]

\* A fresh EnhancedFieldDetector, no detect_all_fields call made.
DetectorFresh ==
    /\ detection_cache = [k \in DetPaths |-> NoDetection]
    /\ detPc = "idle"
    /\ cache_key = "form.pdf"
    /\ detection = NoDetection
    /\ returned = <<>>
    /\ detCalls = 0
    /\ uncachedCalls = 0
    /\ strategyRuns = [k \in Elements(Strategies) |-> 0]
    /\ opened = 0
    /\ outcomes = [k \in Elements(Strategies) |-> "none"]
    /\ returnedFields = [k \in Elements(Strategies) |-> <<>>]
    /\ document = [version |-> 0, seen |-> <<>>]

\* No detector is in use.
DetectorIdle ==
    /\ installed = {}
    /\ DetectorFresh

\* No detect_radio_groups call has been made.
NoRadioCall ==
    [pc |-> "idle", form_fields |-> <<>>, radio_fields |-> <<>>,
     groups_by_pattern |-> EmptyDict, groups_by_position |-> EmptyDict,
     groups_by_labels |-> EmptyDict, combined_groups |-> EmptyDict]

\* A fresh FieldAnalyzer: nothing extracted, no detect_radio_groups call
\* made.
AnalyzerFresh ==
    /\ field_cache = EmptyDict
    /\ radioCall = NoRadioCall
    /\ extracted = <<>>

\* No name has been given to the name helpers of the detector.
NoProbe ==
    [field_name |-> <<>>, typed |-> FALSE, field_type |-> "",
     normalized |-> FALSE, field_prefixes |-> EmptyDict,
     normalized_fields |-> EmptyDict]

NamingIdle == probe = NoProbe

\* No request has reached the web application.
LoopIdle == loop = [running |-> 0, requests |-> <<>>, renames |-> <<>>]

\* No _is_valid_bem_name call is under way.
ValidatorIdle ==
    /\ bemName = <<>>
    /\ namePieces = 0
    /\ isValid = "pending"

(***************************************************************************)
(* The state machine: one modify_fields call on a PDFModifier.             *)
(***************************************************************************)
\* No modify_fields call has been made.
NoCall ==
    /\ hasUpdate = FALSE
    /\ readOnly = {}
    /\ pc = "idle"
    /\ output_path = "out"
    /\ field_mappings = <<>>
    /\ preserve_original = TRUE
    /\ validate_mappings = TRUE
    /\ backup_path = None
    /\ pdf = NoPdf
    /\ pdf_copy = NoPdf
    /\ pass = 0
    /\ idx = 0
    /\ modifications = <<>>
    /\ errors = <<>>
    /\ warnings = <<>>
    /\ ret = NoRet
    /\ field_count_before = 0
    /\ field_count_after = 0
    /\ result = NoResult
    /\ fates = <<>>
    /\ commitFate = "none"
    /\ src0 = files["src"]
    /\ renameCalls = 0
    /\ log = <<>>

Init ==
    /\ files \in {[p \in Paths |-> IF p = "src" THEN f ELSE NoFile] :
                    f \in {NoFile} \cup {FileOf(d) : d \in Documents}}
    /\ NoCall
    /\ ValidatorIdle
    /\ DetectorIdle
    /\ AnalyzerFresh
    /\ NamingIdle
    /\ LoopIdle

\* An except clause of modify_fields: return the failure result.
Fatal(message) ==
    /\ result' = FatalResult(message)
    /\ pc' = "failed"

\* modify_fields, lines 71-95: the call with its arguments, the checks of the
\* arguments and the backup.  pdf_path is "src"; output_path is another path
\* or pdf_path itself.
Call ==
    /\ pc = "idle"
    /\ UNCHANGED notModifierVars
    /\ \E m \in Mappings, out \in {"src", "out"},
          preserve \in BOOLEAN, validate \in BOOLEAN, create_backup \in BOOLEAN,
          backup_ok \in BOOLEAN :
        /\ field_mappings' = m
        /\ output_path' = out
        /\ preserve_original' = preserve
        /\ validate_mappings' = validate
        /\ IF ~files["src"].exists
           THEN /\ Fatal(<<"file_not_found">>)
                /\ UNCHANGED <<files, backup_path>>
           ELSE IF m = <<>>
           THEN /\ Fatal(<<"invalid_mappings", <<"no_mappings">> >>)
                /\ UNCHANGED <<files, backup_path>>
           ELSE IF create_backup /\ ~preserve
           THEN IF backup_ok
                THEN /\ files' = [files EXCEPT !["bak"] = files["src"]]
                     /\ backup_path' = "bak"
                     /\ pc' = "load"
                     /\ UNCHANGED result
                ELSE /\ Fatal(<<"io_error", "backup">>)
                     /\ UNCHANGED <<files, backup_path>>
           ELSE /\ pc' = "load"
                /\ UNCHANGED <<files, backup_path, result>>
    /\ UNCHANGED <<pdf, pdf_copy, pass, idx, modifications, errors, warnings,
                   ret, field_count_before, field_count_after, hasUpdate,
                   readOnly, fates, commitFate, src0, renameCalls, log>>

\* The wrappers PdfWrapper(...) can give: with or without update_widget_key,
\* and, with it, the properties its widgets refuse to have set.
WrapperKinds ==
    {[update |-> FALSE, refused |-> {}]}
        \cup {[update |-> TRUE, refused |-> u] : u \in UnsettableChoices}

\* modify_fields, lines 97-122: load the document (the load can fail), count
\* its fields.
Load ==
    /\ pc = "load"
    /\ UNCHANGED notModifierVars
    /\ \/ \E wrapper \in WrapperKinds :
            /\ pdf' = files["src"].widgets
            /\ hasUpdate' = wrapper.update
            /\ readOnly' = wrapper.refused
            /\ field_count_before' = Cardinality(DOMAIN files["src"].widgets)
            /\ pc' = "validate"
            /\ UNCHANGED result
       \/ /\ Fatal(<<"load_failed">>)
          /\ UNCHANGED <<pdf, field_count_before, hasUpdate, readOnly>>
    /\ UNCHANGED <<files, output_path, field_mappings, preserve_original,
                   validate_mappings, backup_path, pdf_copy, pass, idx,
                   modifications, errors, warnings, ret, field_count_after,
                   fates, commitFate, src0, renameCalls, log>>

\* _apply_field_modifications, lines 325-331: the locals of a new pass.
StartPass(n) ==
    /\ pass' = n
    /\ idx' = 0
    /\ modifications' = <<>>
    /\ errors' = <<>>
    /\ warnings' = <<>>
    /\ pc' = "apply"

\* modify_fields, lines 124-138: validate the mapping, then enter the first
\* _apply_field_modifications.
Validate ==
    /\ pc = "validate"
    /\ UNCHANGED notModifierVars
    /\ LET validation_errors == ValidateFieldMappings(pdf, field_mappings)
       IN IF validate_mappings /\ validation_errors # <<>>
          THEN /\ Fatal(<<"invalid_mappings", validation_errors>>)
               /\ UNCHANGED <<pass, idx, modifications, errors, warnings>>
          ELSE /\ StartPass(1)
               /\ UNCHANGED result
    /\ UNCHANGED <<files, output_path, field_mappings, preserve_original,
                   validate_mappings, backup_path, pdf, pdf_copy, ret,
                   field_count_before, field_count_after, hasUpdate, readOnly,
                   fates, commitFate, src0, renameCalls, log>>

\* The wrapper the running pass works on.
Cur == IF pass = 1 THEN pdf ELSE pdf_copy

\* The outcomes the access layer can show for one mapping entry.
FateChoices ==
    {[rename |-> r, unsettable |-> readOnly] : r \in RenameFates}

\* _restore_widget_properties: whether some setattr raised (and was skipped).
RestoreFailed(properties, unsettable) == DOMAIN properties \cap unsettable # {}

\* An iteration that puts the properties back right after the rename-key
\* call, before it has looked whether the new name resolves.
EntryOpsRestoreUnverified(found, canUpdate, rename, resolves) ==
    IF ~found THEN <<>>
    ELSE IF ~canUpdate THEN <<"snapshot">>
    ELSE IF rename = "raise" THEN <<"snapshot", "rename">>
    ELSE <<"snapshot", "rename", "restore", "verify">>

\* _apply_field_modifications, lines 337-390: what one iteration of the
\* loop does with the field, in the order of the code:
\* _extract_widget_properties (line 350), update_widget_key (line 367),
\* `bem_name in pdf.widgets` (line 370), _restore_widget_properties
\* (line 375).
EntryOps(found, canUpdate, rename, resolves) ==
    IF ~found THEN <<>>
    ELSE IF ~canUpdate THEN <<"snapshot">>
    ELSE IF rename = "raise" THEN <<"snapshot", "rename">>
    ELSE IF resolves THEN <<"snapshot", "rename", "verify", "restore">>
    ELSE <<"snapshot", "rename", "verify">>

\* _apply_field_modifications, lines 337-414: one iteration of the loop over
\* the mapping.  Gives the widgets after the iteration, what the iteration
\* appended ("modified": to modifications, "error" and "break": to errors),
\* whether it called update_widget_key and whether a setattr of the restore
\* raised.
ProcessEntry(widgets, original_name, bem_name, canUpdate, fate) ==
    IF original_name \notin DOMAIN widgets
    THEN [widgets |-> widgets, outcome |-> "error", called |-> FALSE,
          restore_failed |-> FALSE,
          entry |-> <<"not_found", original_name>>]
    ELSE
    LET widget == widgets[original_name]
        original_properties == ExtractWidgetProperties(widget)
        field_type == GetFieldTypeFromWidget(widget)
        renamed == IF fate.rename = "renamed"
                   THEN UpdateWidgetKey(widgets, original_name, bem_name)
                   ELSE widgets
    IN  IF ~canUpdate
        THEN [widgets |-> widgets, outcome |-> "break", called |-> FALSE,
              restore_failed |-> FALSE,
              entry |-> <<"no_update_method">>]
        ELSE IF fate.rename = "raise"
        THEN [widgets |-> widgets, outcome |-> "error", called |-> TRUE,
              restore_failed |-> FALSE,
              entry |-> <<"rename_raised", original_name, bem_name>>]
        ELSE IF bem_name \in DOMAIN renamed
        THEN [widgets |-> [renamed EXCEPT ![bem_name] =
                              RestoreWidgetProperties(renamed[bem_name],
                                  original_properties, fate.unsettable)],
              outcome |-> "modified", called |-> TRUE,
              restore_failed |-> RestoreFailed(original_properties, fate.unsettable),
              entry |-> [old |-> original_name, new |-> bem_name,
                         type |-> field_type, page |-> 0,
                         preserved_properties |->
                             Cardinality(DOMAIN original_properties)]]
        ELSE [widgets |-> renamed, outcome |-> "error", called |-> TRUE,
              restore_failed |-> FALSE,
              entry |-> <<"not_found_after_rename", original_name, bem_name>>]

\* The outcomes the access layer can show for this entry: none when the
\* iteration does not reach the call of update_widget_key.
FatesFor(widgets, original_name, bem_name) ==
    IF original_name \notin DOMAIN widgets \/ ~hasUpdate
    THEN {NoFate}
    ELSE FateChoices

\* The outcomes the access layer can show for entry k in the second pass
\* (line 156): pdf_copy is a PdfWrapper of a copy of the file pdf was loaded
\* from and is given the same calls, so it does what pdf did.
SecondPassFates(k, widgets, original_name, bem_name) == {fates[k]}

\* A loop that any failed entry ends.
NextIndexStopsOnError(outcome, i, n) == IF outcome = "modified" THEN i + 1 ELSE n

\* _apply_field_modifications: `continue` (line 343) or the end of the loop
\* body (lines 383, 389, 414) goes to the next entry, `break` (line 362) ends
\* the loop.
NextIndex(outcome, i, n) == IF outcome = "break" THEN n ELSE i + 1

\* _apply_field_modifications, lines 333-414: the next mapping entry.  The
\* access layer is deterministic: on the copy of the document the second
\* pass sees what the first pass saw.
ApplyStep ==
    /\ pc = "apply"
    /\ UNCHANGED notModifierVars
    /\ idx < Len(field_mappings)
    /\ LET original_name == field_mappings[idx + 1][1]
           bem_name == field_mappings[idx + 1][2]
       IN \E fate \in FateChoices \cup {NoFate} :
           /\ IF pass = 2
              THEN fate \in SecondPassFates(idx + 1, Cur, original_name, bem_name)
              ELSE fate \in FatesFor(Cur, original_name, bem_name)
           /\ \E step \in {ProcessEntry(Cur, original_name, bem_name,
                                      hasUpdate, fate)} :
                 /\ IF pass = 1
                    THEN pdf' = step.widgets /\ UNCHANGED pdf_copy
                    ELSE pdf_copy' = step.widgets /\ UNCHANGED pdf
                 /\ modifications' = IF step.outcome = "modified"
                                     THEN Append(modifications, step.entry)
                                     ELSE modifications
                 /\ errors' = IF step.outcome = "modified"
                              THEN errors
                              ELSE Append(errors, step.entry)
                 /\ idx' = NextIndex(step.outcome, idx, Len(field_mappings))
                 /\ renameCalls' = IF step.called THEN renameCalls + 1 ELSE renameCalls
                 /\ fates' = IF pass = 1 THEN Append(fates, fate) ELSE fates
                 /\ log' = Append(log, [pass |-> pass, index |-> idx + 1,
                                        old |-> original_name, new |-> bem_name,
                                        found |-> original_name \in DOMAIN Cur,
                                        fate |-> fate, called |-> step.called,
                                        restore_failed |-> step.restore_failed,
                                        outcome |-> step.outcome,
                                        tag |-> IF step.outcome = "modified"
                                                THEN "modified"
                                                ELSE step.entry[1]])
    /\ UNCHANGED <<files, pc, output_path, field_mappings, preserve_original,
                   validate_mappings, backup_path, pass, warnings, ret,
                   field_count_before, field_count_after, result, hasUpdate,
                   readOnly, commitFate, src0>>

\* A bulk commit whose failure leaves no trace.
CommitWarningsDropped(canCommit, fate) == <<>>

\* _apply_field_modifications, lines 418-436: the warnings the bulk commit adds.
CommitWarnings(canCommit, fate) ==
    IF ~canCommit THEN << <<"no_commit_method">> >>
    ELSE IF fate = "raise" THEN << <<"commit_raised">> >>
    ELSE <<>>

\* A bulk commit that does not wait for the loop over the mapping to end.
CommitBeforeLoopEnds ==
    /\ pc = "apply"
    /\ UNCHANGED notModifierVars
    /\ \E fate \in CommitFates :
        /\ pass = 2 => fate = commitFate
        /\ commitFate' = fate
        /\ warnings' = warnings \o CommitWarnings(fate # "missing", fate)
    /\ IF pass = 1
       THEN /\ ret' = [modifications |-> modifications, errors |-> errors,
                       warnings |-> warnings']
            /\ pc' = IF preserve_original THEN "copy" ELSE "write"
       ELSE /\ UNCHANGED ret
            /\ pc' = "write"
    /\ UNCHANGED <<files, output_path, field_mappings, preserve_original,
                   validate_mappings, backup_path, pdf, pdf_copy, pass, idx,
                   modifications, errors, field_count_before,
                   field_count_after, result, hasUpdate, readOnly, fates,
                   src0, renameCalls, log>>

\* _apply_field_modifications, lines 416-438, and its return into
\* modify_fields: line 136 keeps what the first pass returns, line 156 drops
\* what the second pass returns.
Commit ==
    /\ pc = "apply"
    /\ UNCHANGED notModifierVars
    /\ idx = Len(field_mappings)
    /\ \E fate \in CommitFates :
        /\ pass = 2 => fate = commitFate
        /\ commitFate' = fate
        /\ warnings' = warnings \o CommitWarnings(fate # "missing", fate)
    /\ IF pass = 1
       THEN /\ ret' = [modifications |-> modifications, errors |-> errors,
                       warnings |-> warnings']
            /\ pc' = IF preserve_original THEN "copy" ELSE "write"
       ELSE /\ UNCHANGED ret
            /\ pc' = "write"
    /\ UNCHANGED <<files, output_path, field_mappings, preserve_original,
                   validate_mappings, backup_path, pdf, pdf_copy, pass, idx,
                   modifications, errors, field_count_before,
                   field_count_after, result, hasUpdate, readOnly, fates,
                   src0, renameCalls, log>>

\* A copy that takes source and destination for different files always.
NeverSameFile(source, destination) == FALSE

\* shutil.copy2 (line 152) raises SameFileError when source and destination
\* are one file.
SameFile(source, destination) == source = destination

\* modify_fields, lines 149-152: shutil.copy2(pdf_path, output_path).
CopyOriginal ==
    /\ pc = "copy"
    /\ UNCHANGED notModifierVars
    /\ \E ok \in BOOLEAN :
        IF ok /\ ~SameFile("src", output_path)
        THEN /\ files' = [files EXCEPT ![output_path] = files["src"]]
             /\ pc' = "load_copy"
             /\ UNCHANGED result
        ELSE /\ Fatal(<<"save_failed">>)
             /\ UNCHANGED files
    /\ UNCHANGED <<output_path, field_mappings, preserve_original,
                   validate_mappings, backup_path, pdf, pdf_copy, pass, idx,
                   modifications, errors, warnings, ret, field_count_before,
                   field_count_after, hasUpdate, readOnly, fates, commitFate,
                   src0, renameCalls, log>>

\* modify_fields, lines 154-156: open the copy and enter the second
\* _apply_field_modifications.
LoadCopy ==
    /\ pc = "load_copy"
    /\ UNCHANGED notModifierVars
    /\ \E ok \in BOOLEAN :
        IF ok
        THEN /\ pdf_copy' = files[output_path].widgets
             /\ StartPass(2)
             /\ UNCHANGED result
        ELSE /\ Fatal(<<"save_failed">>)
             /\ UNCHANGED <<pdf_copy, pass, idx, modifications, errors, warnings>>
    /\ UNCHANGED <<files, output_path, field_mappings, preserve_original,
                   validate_mappings, backup_path, pdf, ret,
                   field_count_before, field_count_after, hasUpdate, readOnly,
                   fates, commitFate, src0, renameCalls, log>>

\* The wrapper modify_fields writes: line 157 (pdf_copy) or line 161 (pdf).
WrittenWrapper == IF preserve_original THEN pdf_copy ELSE pdf

\* A result whose success says that something was renamed.
BuildResultSuccessIfRenamed(r, before, after) ==
    [modifications |-> r.modifications, success |-> Len(r.modifications) > 0,
     errors |-> r.errors, warnings |-> r.warnings,
     field_count_before |-> before, field_count_after |-> after]

\* modify_fields, lines 177-188: the result of a call that raised nothing.
BuildResult(r, before, after) ==
    [modifications |-> r.modifications, success |-> Len(r.errors) = 0,
     errors |-> r.errors, warnings |-> r.warnings,
     field_count_before |-> before, field_count_after |-> after]

\* modify_fields, lines 157-195: write the output, re-open it and count its
\* fields (0 when that fails), then build and return the result.
WriteVerifyReturn ==
    /\ pc = "write"
    /\ UNCHANGED notModifierVars
    /\ \E outcome \in {"write_failed", "verify_failed", "verified"} :
        IF outcome # "write_failed"
        THEN /\ files' = [files EXCEPT ![output_path] = FileOf(WrittenWrapper)]
             /\ field_count_after' = IF outcome = "verified"
                                      THEN Cardinality(DOMAIN WrittenWrapper)
                                      ELSE 0
             /\ result' = BuildResult(ret, field_count_before, field_count_after')
             /\ pc' = "returned"
        ELSE /\ Fatal(<<"save_failed">>)
             /\ UNCHANGED <<files, field_count_after>>
    /\ UNCHANGED <<output_path, field_mappings, preserve_original,
                   validate_mappings, backup_path, pdf, pdf_copy, pass, idx,
                   modifications, errors, warnings, ret, field_count_before,
                   hasUpdate, readOnly, fates, commitFate, src0, renameCalls,
                   log>>

Next ==
    \/ Call
    \/ Load
    \/ Validate
    \/ ApplyStep
    \/ Commit
    \/ CopyOriginal
    \/ LoadCopy
    \/ WriteVerifyReturn

Spec == Init /\ [][Next]_vars

(***************************************************************************)
(* PDFModifier._is_valid_bem_name on its own: a caller puts a name         *)
(* together, piece by piece, and calls the validator with it.  A piece is  *)
(* one character of NameChars, the suffix "--group", or a newline that     *)
(* ends the name; a name has at most MaxNameLen pieces.                    *)
(***************************************************************************)
MaxNameLen == 6     \* most pieces a name is made of

\* A lowercase letter that starts the reserved word "id", one that ends it,
\* an uppercase letter, a digit, the two delimiters and the newline.
NameChars == {"i", "d", "A", "1", "_", "-", "\n"}

ValidatorInit ==
    /\ ValidatorIdle
    /\ files = [p \in Paths |-> NoFile]
    /\ NoCall
    /\ DetectorIdle
    /\ AnalyzerFresh
    /\ NamingIdle
    /\ LoopIdle

\* The name can take one more piece.
NameOpen ==
    /\ isValid = "pending"
    /\ namePieces < MaxNameLen
    /\ IF bemName = <<>> THEN TRUE ELSE bemName[Len(bemName)] # "\n"

\* The caller adds a character to the name.
ChooseChar ==
    /\ NameOpen
    /\ \E c \in NameChars : bemName' = Append(bemName, c)
    /\ namePieces' = namePieces + 1
    /\ UNCHANGED <<isValid, notValidatorVars>>

\* The caller adds the suffix "--group" to the name.
ChooseGroupSuffix ==
    /\ NameOpen
    /\ bemName' = bemName \o GroupSuffix
    /\ namePieces' = namePieces + 1
    /\ UNCHANGED <<isValid, notValidatorVars>>

\* _is_valid_bem_name(name), lines 299-319.
IsValidBemNameCall ==
    /\ isValid = "pending"
    /\ isValid' = IF MatchesBemPattern(bemName) THEN "True" ELSE "False"
    /\ UNCHANGED <<bemName, namePieces, notValidatorVars>>

ValidatorNext ==
    \/ ChooseChar
    \/ ChooseGroupSuffix
    \/ IsValidBemNameCall

ValidatorSpec == ValidatorInit /\ [][ValidatorNext]_vars

(***************************************************************************)
(* The field detection of the archived engine: calls on one               *)
(* EnhancedFieldDetector (detect_all_fields), or calls on one              *)
(* FieldAnalyzer (extract_form_fields, detect_radio_groups), which is run  *)
(* where every library is installed.  The two share no state, and a run    *)
(* uses one of them.  What a library enumerates in the document is the     *)
(* environment's choice.                                                   *)
(***************************************************************************)
MaxCalls == 2       \* most detect_all_fields calls of a run

MaxWidgets == 2     \* most widgets a library enumerates in the document

SeqsUpTo(S, n) == UNION {[1..k -> S] : k \in 0..n}

\* add_field that keeps only the last source of a name.
AddFieldLastSourceOnly(res, field_name, source) ==
    [res EXCEPT
        !.all_fields = res.all_fields \cup {field_name},
        !.field_sources =
            [f \in DOMAIN res.field_sources \cup {field_name} |->
                IF f = field_name THEN <<source>> ELSE res.field_sources[f]]]

\* FieldDetectionResult.add_field
AddField(res, field_name, source) ==
    [res EXCEPT
        !.all_fields = res.all_fields \cup {field_name},
        !.field_sources =
            [f \in DOMAIN res.field_sources \cup {field_name} |->
                IF f # field_name
                THEN res.field_sources[f]
                ELSE IF f \in DOMAIN res.field_sources
                THEN Append(res.field_sources[f], source)
                ELSE <<source>>]]

\* for field in fields: result.add_field(field, source)
RECURSIVE AddFields(_, _, _)
AddFields(res, fields, source) ==
    IF fields = <<>>
    THEN res
    ELSE AddFields(AddField(res, Head(fields), source), Tail(fields), source)

\* What a library can enumerate: the keys of pdf.widgets (no key twice), the
\* names of the widgets or annotations of the pages, the names under
\* /AcroForm /Fields with their /Kids.  A widget can have no name.
RawEnumerations(strategy) ==
    IF strategy = "pypdfform"
    THEN {raw \in SeqsUpTo(DetNames, MaxWidgets) :
            \A i, j \in 1..Len(raw) : raw[i] = raw[j] => i = j}
    ELSE SeqsUpTo(DetNames \cup {NoName}, MaxWidgets)

\* The list a strategy's helper builds from what the library enumerates
\* (_detect_pypdfform_fields, _detect_pymupdf_fields, _detect_pypdf2_fields,
\* _detect_annotation_fields).
DetectFields(strategy, raw) ==
    LET named == SelectSeq(raw, LAMBDA n : n # NoName)
    IN CASE strategy = "pypdfform" -> raw
         [] strategy = "pymupdf" -> Dedupe(named)
         [] strategy = "pypdf2" ->
              Dedupe([i \in 1..Len(named) |-> Strip(named[i], {"(", ")"})])
         [] strategy = "annotations" -> Dedupe(named)

\* How a run of a strategy's helper can end.  The helper catches ImportError
\* and every other Exception and returns [] for both.
StrategyOutcomes(strategy) ==
    IF LibraryOf(strategy) \notin installed
    THEN {[how |-> "unavailable", fields |-> <<>>]}
    ELSE {[how |-> "raised", fields |-> <<>>]}
         \cup {[how |-> "returned", fields |-> DetectFields(strategy, raw)] :
                 raw \in RawEnumerations(strategy)}

\* result.<strategy>_fields = fields
WithFields(res, strategy, fields) ==
    CASE strategy = "pypdfform" -> [res EXCEPT !.pypdfform_fields = fields]
      [] strategy = "pymupdf" -> [res EXCEPT !.pymupdf_fields = fields]
      [] strategy = "pypdf2" -> [res EXCEPT !.pypdf2_fields = fields]
      [] strategy = "annotations" -> [res EXCEPT !.annotation_fields = fields]

\* The block of detect_all_fields after the block of the strategy.
NextBlock(strategy) ==
    CASE strategy = "pypdfform" -> "pymupdf"
      [] strategy = "pymupdf" -> "pypdf2"
      [] strategy = "pypdf2" -> "annotations"
      [] strategy = "annotations" -> "process"

\* A detection that gives up on the strategies once one of them has failed.
AfterStrategyStopOnFailure(strategy, how) ==
    IF how = "returned" THEN NextBlock(strategy) ELSE "process"

\* detect_all_fields, lines 90-136: where the call goes after a strategy.
AfterStrategy(strategy, how) == NextBlock(strategy)

\* The first prefix of the table the name starts with ("": none).
FirstPrefix(field_name) ==
    LET matching == {i \in 1..Len(FieldPrefixes) :
                        StartsWith(field_name, FieldPrefixes[i])}
    IN IF matching = {}
       THEN <<>>
       ELSE FieldPrefixes[CHOOSE i \in matching : \A j \in matching : i <= j]

\* A normalization that strips prefixes for as long as the name starts
\* with one.
RECURSIVE StripEveryPrefix(_)
StripEveryPrefix(field_name) ==
    IF \A i \in 1..Len(FieldPrefixes) : ~StartsWith(field_name, FieldPrefixes[i])
    THEN field_name
    ELSE LET i == CHOOSE j \in 1..Len(FieldPrefixes) :
                      StartsWith(field_name, FieldPrefixes[j])
         IN StripEveryPrefix(SubSeq(field_name, Len(FieldPrefixes[i]) + 1,
                                    Len(field_name)))

\* normalized_name of lines 432-440 and of lines 542-546
StripPrefix(field_name) ==
    SubSeq(field_name, Len(FirstPrefix(field_name)) + 1, Len(field_name))

\* _process_field_normalization: result.field_prefixes
FieldPrefixesOf(all_fields) ==
    [f \in {g \in all_fields : FirstPrefix(g) # <<>>} |-> FirstPrefix(f)]

\* _process_field_normalization: the values result.normalized_fields can
\* get.  The loop runs over a set, in no fixed order, and the last field
\* written under a normalized name stays.
NormalizedFieldsChoices(all_fields) ==
    {normalized \in [{StripPrefix(f) : f \in all_fields} -> all_fields] :
        \A n \in DOMAIN normalized : StripPrefix(normalized[n]) = n}

AnyOf(s, parts) == \E part \in parts : Contains(s, part)

\* A _determine_field_type that looks for a date before it looks for a
\* checkbox.
DetermineFieldTypeDateFirst(field_name) ==
    LET field_lower == Lower(field_name)
    IN IF EndsWith(field_name, GroupSuffix) THEN "radio_group"
       ELSE IF Contains(field_lower, <<"d", "a", "t", "e">>) THEN "date"
       ELSE IF AnyOf(field_lower, {<<"_", "s", "a", "m", "e">>, <<"c", "h", "e", "c", "k">>})
       THEN "checkbox"
       ELSE IF Contains(field_lower, <<"s", "i", "g", "n", "a", "t", "u", "r", "e">>)
               /\ ~Contains(field_lower, <<"n", "a", "m", "e">>)
       THEN "signature"
       ELSE IF Contains(field_lower, <<"o", "p", "t", "i", "o", "n">>)
       THEN "option"
       ELSE "text"

\* _determine_field_type
DetermineFieldType(field_name) ==
    LET field_lower == Lower(field_name)
    IN IF EndsWith(field_name, GroupSuffix) THEN "radio_group"
       ELSE IF AnyOf(field_lower, {<<"_", "s", "a", "m", "e">>, <<"a", "d", "d", "r", "_", "s", "a", "m", "e">>, <<"c", "h", "e", "c", "k">>})
       THEN "checkbox"
       ELSE IF /\ Contains(field_lower, <<"s", "i", "g", "n", "a", "t", "u", "r", "e">>)
               /\ ~Contains(field_lower, <<"d", "a", "t", "e">>)
               /\ ~Contains(field_lower, <<"n", "a", "m", "e">>)
       THEN "signature"
       ELSE IF Contains(field_lower, <<"d", "a", "t", "e">>) \/ EndsWith(field_name, <<"_", "D", "A", "T", "E">>)
       THEN "date"
       ELSE IF AnyOf(field_lower, {<<"d", "i", "v", "i", "d", "e", "n", "d">>, <<"p", "a", "y", "m", "e", "n", "t">>, <<"b", "i", "l", "l", "i", "n", "g">>, <<"o", "p", "t", "i", "o", "n">>})
       THEN "option"
       ELSE "text"

\* _detect_radio_groups, lines 489-497: individual_options of a container.
\* The list is built by a loop over a set: it has no field twice and no
\* fixed order, so it is kept as the set of its elements.
IndividualOptions(all_fields, group_container) ==
    LET group_base == Remove(group_container, GroupSuffix)
    IN {f \in all_fields :
          /\ f # group_container
          /\ Contains(f, group_base)
          /\ ~EndsWith(f, GroupSuffix)}

\* _detect_radio_groups: result.radio_groups
RadioGroups(all_fields) ==
    [c \in {g \in all_fields :
               /\ EndsWith(g, GroupSuffix)
               /\ IndividualOptions(all_fields, g) # {}} |->
        IndividualOptions(all_fields, c)]

\* An accessibility check that knows the raw names only.
AccessibleFieldsRawOnly(all_fields, pypdfform_fields) ==
    Elements(pypdfform_fields)

\* _check_field_accessibility: result.accessible_fields
AccessibleFields(all_fields, pypdfform_fields) ==
    LET pypdfform_set == Elements(pypdfform_fields)
    IN pypdfform_set
       \cup {f \in all_fields :
               f \notin pypdfform_set /\ StripPrefix(f) \in pypdfform_set}

\* A cache whose entry counts only while the file at the path is the one
\* the entry was made from.
CacheHitWhileUnchanged(cache, key) ==
    /\ cache[key] # NoDetection
    /\ document.version = document.seen[Len(document.seen)]

\* A cache that is never found to hold the key.
CacheNeverHit(cache, key) == FALSE

\* cache_key in self.detection_cache
CacheHit(cache, key) == cache[key] # NoDetection

DetectorInit ==
    /\ installed \in SUBSET Libraries
    /\ DetectorFresh
    /\ AnalyzerFresh
    /\ files = [p \in Paths |-> NoFile]
    /\ NoCall
    /\ ValidatorIdle
    /\ NamingIdle
    /\ LoopIdle

\* detect_all_fields, lines 84-88: the call, the cache lookup, the new result.
DetectAllFields ==
    /\ detPc = "idle"
    /\ extracted = <<>>
    /\ detCalls < MaxCalls
    /\ detCalls' = detCalls + 1
    /\ document' = [document EXCEPT !.seen = Append(@, document.version)]
    /\ \E pdf_path \in DetPaths :
        /\ cache_key' = pdf_path
        /\ IF CacheHit(detection_cache, pdf_path)
           THEN /\ returned' = Append(returned, detection_cache[pdf_path])
                /\ UNCHANGED <<detPc, detection, uncachedCalls, outcomes,
                               returnedFields>>
           ELSE /\ detection' = NewDetection
                /\ detPc' = "pypdfform"
                /\ uncachedCalls' = uncachedCalls + 1
                /\ outcomes' = [k \in Elements(Strategies) |-> "none"]
                /\ returnedFields' = [k \in Elements(Strategies) |-> <<>>]
                /\ UNCHANGED returned
    /\ UNCHANGED <<installed, detection_cache, strategyRuns, opened,
                   notDetectorVars>>

\* detect_all_fields, one of the four blocks of lines 90-136: run the helper
\* of the strategy, keep its list and add its names to the result.  The
\* helpers raise nothing, so the except clause of the block is never
\* entered.
RunStrategy(strategy) ==
    /\ detPc = strategy
    /\ strategyRuns' = [strategyRuns EXCEPT ![strategy] = @ + 1]
    /\ \E outcome \in StrategyOutcomes(strategy) :
        /\ detection' = AddFields(WithFields(detection, strategy, outcome.fields),
                                  outcome.fields, strategy)
        /\ outcomes' = [outcomes EXCEPT ![strategy] = outcome.how]
        /\ returnedFields' = [returnedFields EXCEPT ![strategy] = outcome.fields]
        /\ opened' = IF outcome.how = "unavailable" THEN opened ELSE opened + 1
        /\ detPc' = AfterStrategy(strategy, outcome.how)
    /\ UNCHANGED <<installed, detection_cache, cache_key, returned, detCalls,
                   uncachedCalls, document, notDetectorVars>>

\* Method 1, lines 90-100.
DetectPypdfform == RunStrategy("pypdfform")

\* Method 2, lines 102-112.
DetectPymupdf == RunStrategy("pymupdf")

\* Method 3, lines 114-124.
DetectPypdf2 == RunStrategy("pypdf2")

\* Method 4, lines 126-136.
DetectAnnotations == RunStrategy("annotations")

\* detect_all_fields, lines 138-150: normalization, types, radio groups,
\* accessibility; the result goes to the cache and to the caller.
ProcessAndReturn ==
    /\ detPc = "process"
    /\ \E normalized \in NormalizedFieldsChoices(detection.all_fields) :
        LET result_ ==
                [detection EXCEPT
                    !.normalized_fields = normalized,
                    !.field_prefixes = FieldPrefixesOf(detection.all_fields),
                    !.field_types =
                        [f \in detection.all_fields |-> DetermineFieldType(f)],
                    !.radio_groups = RadioGroups(detection.all_fields),
                    !.accessible_fields =
                        AccessibleFields(detection.all_fields,
                                         detection.pypdfform_fields)]
        IN /\ detection' = result_
           /\ detection_cache' = [detection_cache EXCEPT ![cache_key] = result_]
           /\ returned' = Append(returned, result_)
    /\ detPc' = "idle"
    /\ UNCHANGED <<installed, cache_key, detCalls, uncachedCalls, strategyRuns,
                   opened, outcomes, returnedFields, document, notDetectorVars>>

\* Between two detect_all_fields calls the file at the path is written
\* again, as modify_fields does with the document it has renamed fields in
\* (src/src/pdf_enrichment/pdf_modifier.py, line 160).  The detector is not
\* told.
DocumentChanged ==
    /\ detPc = "idle"
    /\ returned # <<>>
    /\ document.version < detCalls
    /\ document' = [document EXCEPT !.version = @ + 1]
    /\ UNCHANGED <<installed, detection_cache, detPc, cache_key, detection,
                   returned, detCalls, uncachedCalls, strategyRuns, opened,
                   outcomes, returnedFields, notDetectorVars>>

(***************************************************************************)
(* FieldAnalyzer and RadioGroupDetector                                    *)
(* (src/Archived Modification Engine/components/field_analyzer.py).        *)
(* A dict is the sequence of its entries, in the order of insertion; an    *)
(* entry of a dict of groups is a record of the group's name and of the    *)
(* list of its field names.                                                *)
(***************************************************************************)
MaxFormFields == 4  \* most widgets of a document

\* key in d
HasKey(d, key) == \E i \in 1..Len(d) : d[i].name = key

\* d[key]
GetItem(d, key) == d[CHOOSE i \in 1..Len(d) : d[i].name = key]

\* d[entry.name] = entry: a key the dict has keeps its place.
SetItem(d, entry) ==
    IF HasKey(d, entry.name)
    THEN [i \in 1..Len(d) |-> IF d[i].name = entry.name THEN entry ELSE d[i]]
    ELSE Append(d, entry)

\* [f.name for f in fields]
NamesOf(fields) == [i \in 1..Len(fields) |-> fields[i].name]

\* The widgets the documents are made of, in the order a document lists
\* them.  No widget has a label or a tooltip, so that the label of its field
\* is _clean_field_name(name); the first six are radio buttons to the type
\* detector, the last is a text field.
WidgetOrder ==
    << [name |-> <<"g", "e", "n", "d", "e", "r", "_", "1">>,
        label |-> <<"G", "e", "n", "d", "e", "r", " ", "1">>,
        field_type |-> "RadioButton"],
       [name |-> <<"g", "e", "n", "d", "e", "r", "_", "2">>,
        label |-> <<"G", "e", "n", "d", "e", "r", " ", "2">>,
        field_type |-> "RadioButton"],
       [name |-> <<"m", "a", "l", "e">>,
        label |-> <<"M", "a", "l", "e">>,
        field_type |-> "RadioButton"],
       [name |-> <<"f", "e", "m", "a", "l", "e">>,
        label |-> <<"F", "e", "m", "a", "l", "e">>,
        field_type |-> "RadioButton"],
       [name |-> <<"G", "e", "n", "d", "e", "r", "_", "O", "p", "t", "i", "o",
                   "n", "1">>,
        label |-> <<"G", "e", "n", "d", "e", "r", " ", "O", "p", "t", "i", "o",
                    "n", "1">>,
        field_type |-> "RadioButton"],
       [name |-> <<"G", "e", "n", "d", "e", "r", "_", "O", "p", "t", "i", "o",
                   "n", "2">>,
        label |-> <<"G", "e", "n", "d", "e", "r", " ", "O", "p", "t", "i", "o",
                    "n", "2">>,
        field_type |-> "RadioButton"],
       [name |-> <<"s", "e", "x", "_", "m">>,
        label |-> <<"S", "e", "x", " ", "M">>,
        field_type |-> "RadioButton"],
       [name |-> <<"n", "o", "t", "e", "s">>,
        label |-> <<"N", "o", "t", "e", "s">>,
        field_type |-> "TextField"] >>

\* Where a widget can be: at the top of the first page, or further down
\* the page than y_threshold.
Placements ==
    { [page |-> 0, y |-> 0, x |-> 0],
      [page |-> 0, y |-> 100, x |-> 0] }

\* The FormField of lines 61-72, with the attributes radio group detection
\* reads.
NewFormField(field_id, widget, position) ==
    [id |-> field_id, name |-> widget.name, field_type |-> widget.field_type,
     label |-> widget.label, page |-> position.page, y |-> position.y,
     x |-> position.x]

\* The elements of a set of numbers, in increasing order.
SortedSeq(S) ==
    [k \in 1..Cardinality(S) |->
        CHOOSE i \in S : Cardinality({j \in S : j < i}) = k - 1]

\* extract_form_fields, lines 49-82: the lists the loop over the widgets of
\* a document can build.  A widget whose processing raises is left out, so
\* the list is that of any of the widgets, numbered in their order.  The
\* first widget of a list is at the top of the page.
Extractions ==
    UNION {{LET order == SortedSeq(chosen)
            IN [k \in 1..Len(order) |->
                   NewFormField(k - 1, WidgetOrder[order[k]], place[order[k]])] :
              place \in {pl \in [chosen -> Placements] :
                            \A i \in chosen :
                                (\A j \in chosen : i <= j) => pl[i].y = 0}} :
             chosen \in {c \in SUBSET (1..Len(WidgetOrder)) :
                           Cardinality(c) <= MaxFormFields}}

\* How an extract_form_fields call ended: with a list, from the cache or of
\* the document PdfWrapper loaded, or with an exception.
Returned(fields, loaded) ==
    [status |-> "returned", fields |-> fields, loaded |-> loaded]

Raised == [status |-> "raised", fields |-> <<>>, loaded |-> TRUE]

\* cache_key in self.field_cache
FieldCacheHit(cache, key) == key \in DOMAIN cache

\* self.field_cache[cache_key] = form_fields
FieldCachePut(cache, key, fields) ==
    [k \in DOMAIN cache \cup {key} |-> IF k = key THEN fields ELSE cache[k]]

(***************************************************************************)
(* re.match(pattern, field.name, re.IGNORECASE) for the four patterns of   *)
(* _detect_by_naming_pattern.  Each pattern is a lazy first group followed *)
(* by a tail: group 1 is the shortest prefix after which the tail matches. *)
(***************************************************************************)
Letters == LowerChars \cup UpperChars

\* $: the end of the name, or the newline that ends it
AtEnd(rest) == rest = <<>> \/ rest = <<"\n">>

\* (\d+)$
DigitsToEnd(rest) ==
    \E n \in 1..Len(rest) :
        /\ \A i \in 1..n : rest[i] \in DigitChars
        /\ AtEnd(SubSeq(rest, n + 1, Len(rest)))

\* ([a-zA-Z]+)$
LettersToEnd(rest) ==
    \E n \in 1..Len(rest) :
        /\ \A i \in 1..n : rest[i] \in Letters
        /\ AtEnd(SubSeq(rest, n + 1, Len(rest)))

\* _(\d+)$
NumberedTail(rest) ==
    IF rest = <<>> THEN FALSE ELSE rest[1] = "_" /\ DigitsToEnd(Tail(rest))

OptionWords ==
    { <<"o", "p", "t", "i", "o", "n">>,
      <<"c", "h", "o", "i", "c", "e">>,
      <<"i", "t", "e", "m">> }

\* _?(option|choice|item)_?(\d+)$
OptionTail(rest) ==
    \E before \in {0, 1}, word \in OptionWords, after \in {0, 1} :
        LET n == before + Len(word) + after
        IN IF Len(rest) <= n
           THEN FALSE
           ELSE /\ before = 1 => rest[1] = "_"
                /\ Lower(SubSeq(rest, before + 1, before + Len(word))) = word
                /\ after = 1 => rest[n] = "_"
                /\ DigitsToEnd(SubSeq(rest, n + 1, Len(rest)))

\* _([a-zA-Z]+)$
WordTail(rest) ==
    IF rest = <<>> THEN FALSE ELSE rest[1] = "_" /\ LettersToEnd(Tail(rest))

\* .
AnyChar(c) == c # "\n"

\* [a-zA-Z_]
NameChar(c) == c \in Letters \cup {"_"}

NoMatch == [matched |-> FALSE, group1 |-> <<>>]

\* ^(G+?)T: group 1 ends at the first of the places where it can end, the
\* places after which the tail T matches.
LazyMatch(s, ends) ==
    IF ends = {}
    THEN NoMatch
    ELSE [matched |-> TRUE,
          group1 |-> SubSeq(s, 1, CHOOSE k \in ends : \A j \in ends : k <= j)]

\* The number of patterns of _detect_by_naming_pattern.
NumPatterns == 4

\* re.match(patterns[p], s, re.IGNORECASE)
PatternMatch(p, s) ==
    LazyMatch(s, {k \in 1..Len(s) :
                    LET rest == SubSeq(s, k + 1, Len(s))
                    IN /\ \A i \in 1..k :
                            IF p = 4 THEN NameChar(s[i]) ELSE AnyChar(s[i])
                       /\ CASE p = 1 -> NumberedTail(rest)
                            [] p = 2 -> OptionTail(rest)
                            [] p = 3 -> WordTail(rest)
                            [] p = 4 -> DigitsToEnd(rest)})

\* _detect_by_naming_pattern, lines 225-234: one field under one pattern.
AddOption(groups, p, field) ==
    LET match == PatternMatch(p, field.name)
        base_name == Strip(Lower(match.group1), {"_"})
        options == IF HasKey(groups, base_name)
                   THEN GetItem(groups, base_name).fields
                   ELSE <<>>
    IN IF match.matched
       THEN SetItem(groups,
                    [name |-> base_name,
                     fields |-> IF field.name \in Elements(options)
                                THEN options
                                ELSE Append(options, field.name)])
       ELSE groups

\* _detect_by_naming_pattern, lines 223-234, from field i of pattern p on.
RECURSIVE PatternPass(_, _, _, _)
PatternPass(groups, fields, p, i) ==
    IF p > NumPatterns
    THEN groups
    ELSE IF i > Len(fields)
    THEN PatternPass(groups, fields, p + 1, 1)
    ELSE PatternPass(AddOption(groups, p, fields[i]), fields, p, i + 1)

\* _detect_by_naming_pattern
DetectByNamingPattern(fields) ==
    SelectSeq(PatternPass(EmptyDict, fields, 1, 1), LAMBDA g : Len(g.fields) > 1)

y_threshold == 50

Abs(n) == IF n < 0 THEN 0 - n ELSE n

\* (a.y, a.x) < (b.y, b.x)
Above(a, b) == a.y < b.y \/ (a.y = b.y /\ a.x < b.x)

\* fields.sort(key=lambda f: (f.position.y, f.position.x)): a stable sort
RECURSIVE SortByPosition(_)
SortByPosition(fields) ==
    IF fields = <<>>
    THEN <<>>
    ELSE LET front == SortByPosition(SubSeq(fields, 1, Len(fields) - 1))
             last == fields[Len(fields)]
             k == Cardinality({i \in 1..Len(front) : ~Above(last, front[i])})
         IN SubSeq(front, 1, k) \o <<last>> \o SubSeq(front, k + 1, Len(front))

\* _detect_by_position, lines 260-275: the sorted fields of a page, cut
\* where a field is more than y_threshold from the field before it.
RECURSIVE ProximityRuns(_)
ProximityRuns(fields) ==
    IF fields = <<>>
    THEN <<>>
    ELSE LET front == ProximityRuns(SubSeq(fields, 1, Len(fields) - 1))
             field == fields[Len(fields)]
         IN IF front = <<>>
            THEN <<<<field>>>>
            ELSE LET current_group == front[Len(front)]
                     last_y == current_group[Len(current_group)].y
                 IN IF Abs(field.y - last_y) <= y_threshold
                    THEN [front EXCEPT ![Len(front)] = Append(@, field)]
                    ELSE Append(front, <<field>>)

\* _detect_by_position, lines 247-252: the pages, in the order they are met.
PagesOf(fields) == Dedupe([i \in 1..Len(fields) |-> fields[i].page])

\* _detect_by_position, lines 255-281: the groups of more than one field,
\* page after page.
RECURSIVE PositionRuns(_, _)
PositionRuns(fields, pages) ==
    IF pages = <<>>
    THEN <<>>
    ELSE LET on_page == SelectSeq(fields, LAMBDA f : f.page = Head(pages))
         IN SelectSeq(ProximityRuns(SortByPosition(on_page)),
                      LAMBDA run : Len(run) > 1)
            \o PositionRuns(fields, Tail(pages))

DecimalDigits == <<"0", "1", "2", "3", "4", "5", "6", "7", "8", "9">>

\* str(n)
RECURSIVE Decimal(_)
Decimal(n) ==
    IF n < 10
    THEN <<DecimalDigits[n + 1]>>
    ELSE Decimal(n \div 10) \o <<DecimalDigits[(n % 10) + 1]>>

\* f"position_group_{group_id}"
PositionGroupName(group_id) ==
    <<"p", "o", "s", "i", "t", "i", "o", "n", "_", "g", "r", "o", "u", "p", "_">>
        \o Decimal(group_id)

\* _detect_by_position
DetectByPosition(fields) ==
    LET runs == PositionRuns(fields, PagesOf(fields))
    IN [i \in 1..Len(runs) |->
           [name |-> PositionGroupName(i - 1), fields |-> NamesOf(runs[i])]]

\* _detect_by_labels, lines 291-300: category_patterns, in the order of the
\* table.
CategoryPatterns ==
    << [name |-> <<"g", "e", "n", "d", "e", "r">>,
        keywords |-> << <<"m", "a", "l", "e">>,
                        <<"f", "e", "m", "a", "l", "e">>,
                        <<"o", "t", "h", "e", "r">>,
                        <<"m">>,
                        <<"f">> >>],
       [name |-> <<"p", "a", "y", "m", "e", "n", "t", "_", "m", "e", "t", "h", "o", "d">>,
        keywords |-> << <<"a", "c", "h">>,
                        <<"c", "h", "e", "c", "k">>,
                        <<"w", "i", "r", "e">>,
                        <<"c", "r", "e", "d", "i", "t">>,
                        <<"d", "e", "b", "i", "t">>,
                        <<"c", "a", "s", "h">> >>],
       [name |-> <<"f", "r", "e", "q", "u", "e", "n", "c", "y">>,
        keywords |-> << <<"m", "o", "n", "t", "h", "l", "y">>,
                        <<"q", "u", "a", "r", "t", "e", "r", "l", "y">>,
                        <<"a", "n", "n", "u", "a", "l">>,
                        <<"w", "e", "e", "k", "l", "y">>,
                        <<"d", "a", "i", "l", "y">> >>],
       [name |-> <<"y", "e", "s", "_", "n", "o">>,
        keywords |-> << <<"y", "e", "s">>,
                        <<"n", "o">>,
                        <<"y">>,
                        <<"n">>,
                        <<"t", "r", "u", "e">>,
                        <<"f", "a", "l", "s", "e">> >>],
       [name |-> <<"d", "i", "v", "i", "d", "e", "n", "d">>,
        keywords |-> << <<"c", "a", "s", "h">>,
                        <<"r", "e", "d", "u", "c", "e">>,
                        <<"a", "c", "c", "u", "m", "u", "l", "a", "t", "e">>,
                        <<"p", "a", "i", "d">> >>],
       [name |-> <<"w", "i", "t", "h", "d", "r", "a", "w", "a", "l">>,
        keywords |-> << <<"s", "y", "s", "t", "e", "m", "a", "t", "i", "c">>,
                        <<"l", "u", "m", "p">>,
                        <<"p", "a", "r", "t", "i", "a", "l">>,
                        <<"f", "u", "l", "l">> >>],
       [name |-> <<"m", "a", "r", "i", "t", "a", "l", "_", "s", "t", "a", "t", "u", "s">>,
        keywords |-> << <<"s", "i", "n", "g", "l", "e">>,
                        <<"m", "a", "r", "r", "i", "e", "d">>,
                        <<"d", "i", "v", "o", "r", "c", "e", "d">>,
                        <<"w", "i", "d", "o", "w", "e", "d">> >>],
       [name |-> <<"e", "m", "p", "l", "o", "y", "m", "e", "n", "t">>,
        keywords |-> << <<"e", "m", "p", "l", "o", "y", "e", "d">>,
                        <<"r", "e", "t", "i", "r", "e", "d">>,
                        <<"u", "n", "e", "m", "p", "l", "o", "y", "e", "d">>,
                        <<"s", "t", "u", "d", "e", "n", "t">> >>] >>

\* (field.name + ' ' + field.label).lower()
FieldText(field) == Lower(field.name \o <<" ">> \o field.label)

\* _detect_by_labels, lines 303-312: the fields whose text has a keyword of
\* the category.
CategoryFields(fields, keywords) ==
    NamesOf(SelectSeq(fields,
                      LAMBDA f : \E k \in 1..Len(keywords) :
                                    Contains(FieldText(f), keywords[k])))

\* _detect_by_labels
DetectByLabels(fields) ==
    LET found == [c \in 1..Len(CategoryPatterns) |->
                     [name |-> CategoryPatterns[c].name,
                      fields |-> CategoryFields(fields,
                                                CategoryPatterns[c].keywords)]]
    IN SelectSeq(found, LAMBDA g : Len(g.fields) > 1)

\* A group and the strategy that found it.
Tagged(g, strategy) ==
    [name |-> g.name, fields |-> g.fields, strategy |-> strategy]

\* _merge_detection_results, lines 332-336 and 344-348
AlreadyGrouped(merged_groups, fields) ==
    \E i \in 1..Len(merged_groups), j \in 1..Len(fields) :
        fields[j] \in Elements(merged_groups[i].fields)

\* _merge_detection_results, lines 330-339 and 342-351: the groups of a
\* strategy that share no field with a group already merged are stored
\* under their names.
RECURSIVE AddUngrouped(_, _, _)
AddUngrouped(merged_groups, groups, strategy) ==
    IF groups = <<>>
    THEN merged_groups
    ELSE AddUngrouped(IF AlreadyGrouped(merged_groups, Head(groups).fields)
                      THEN merged_groups
                      ELSE SetItem(merged_groups, Tagged(Head(groups), strategy)),
                      Tail(groups), strategy)

\* _merge_detection_results, lines 353-359: the fields of a group without
\* their order and repetitions; a group of one field is dropped.
ValidatedGroups(merged_groups) ==
    SelectSeq([i \in 1..Len(merged_groups) |->
                  [merged_groups[i] EXCEPT !.fields = Elements(@)]],
              LAMBDA g : Cardinality(g.fields) > 1)

\* _merge_detection_results; every group is given with the strategy it is
\* from.
MergeDetectionResults(pattern_groups, position_groups, label_groups) ==
    ValidatedGroups(
        AddUngrouped(
            AddUngrouped([i \in 1..Len(pattern_groups) |->
                             Tagged(pattern_groups[i], "pattern")],
                         position_groups, "position"),
            label_groups, "label"))

\* extract_form_fields: the list of the cache, or the list made of the
\* widgets PdfWrapper loads, which goes to the cache; nothing is cached when
\* the call raises.
ExtractFormFields ==
    /\ radioCall.pc = "idle"
    /\ detCalls = 0
    /\ installed = Libraries
    /\ Len(extracted) < MaxCalls
    /\ \E pdf_path \in DetPaths :
        IF FieldCacheHit(field_cache, pdf_path)
        THEN /\ extracted' = Append(extracted,
                                    Returned(field_cache[pdf_path], FALSE))
             /\ UNCHANGED field_cache
        ELSE \E outcome \in {Raised} \cup {Returned(l, TRUE) : l \in Extractions} :
                 /\ extracted' = Append(extracted, outcome)
                 /\ field_cache' =
                        IF outcome.status = "returned"
                        THEN FieldCachePut(field_cache, pdf_path, outcome.fields)
                        ELSE field_cache
    /\ UNCHANGED <<radioCall, notAnalyzerVars>>

\* detect_radio_groups, lines 178-188, called with a list that
\* extract_form_fields returned: the radio buttons of the list; {} is
\* returned when it has none.
DetectRadioGroups ==
    /\ radioCall.pc = "idle"
    /\ \E i \in 1..Len(extracted) :
        /\ extracted[i].status = "returned"
        /\ LET fields == SelectSeq(extracted[i].fields,
                                   LAMBDA f : f.field_type = "RadioButton")
           IN radioCall' = [NoRadioCall EXCEPT
                               !.form_fields = extracted[i].fields,
                               !.radio_fields = fields,
                               !.pc = IF fields = <<>> THEN "idle" ELSE "pattern"]
    /\ UNCHANGED <<field_cache, extracted, notAnalyzerVars>>

\* detect_radio_groups, line 191
DetectByNamingPatternStep ==
    /\ radioCall.pc = "pattern"
    /\ radioCall' = [radioCall EXCEPT
                        !.groups_by_pattern =
                            DetectByNamingPattern(radioCall.radio_fields),
                        !.pc = "position"]
    /\ UNCHANGED <<field_cache, extracted, notAnalyzerVars>>

\* detect_radio_groups, line 194
DetectByPositionStep ==
    /\ radioCall.pc = "position"
    /\ radioCall' = [radioCall EXCEPT
                        !.groups_by_position =
                            DetectByPosition(radioCall.radio_fields),
                        !.pc = "labels"]
    /\ UNCHANGED <<field_cache, extracted, notAnalyzerVars>>

\* detect_radio_groups, line 197
DetectByLabelsStep ==
    /\ radioCall.pc = "labels"
    /\ radioCall' = [radioCall EXCEPT
                        !.groups_by_labels =
                            DetectByLabels(radioCall.radio_fields),
                        !.pc = "merge"]
    /\ UNCHANGED <<field_cache, extracted, notAnalyzerVars>>

\* detect_radio_groups, lines 200-205
MergeAndReturn ==
    /\ radioCall.pc = "merge"
    /\ radioCall' = [radioCall EXCEPT
                        !.combined_groups =
                            MergeDetectionResults(radioCall.groups_by_pattern,
                                                  radioCall.groups_by_position,
                                                  radioCall.groups_by_labels),
                        !.pc = "idle"]
    /\ UNCHANGED <<field_cache, extracted, notAnalyzerVars>>

DetectorNext ==
    \/ DetectAllFields
    \/ DetectPypdfform
    \/ DetectPymupdf
    \/ DetectPypdf2
    \/ DetectAnnotations
    \/ ProcessAndReturn
    \/ ExtractFormFields
    \/ DetectRadioGroups
    \/ DetectByNamingPatternStep
    \/ DetectByPositionStep
    \/ DetectByLabelsStep
    \/ MergeAndReturn

DetectorSpec == DetectorInit /\ [][DetectorNext]_vars

(***************************************************************************)
(* The detector of a program that also writes the file it detects in: the *)
(* calls of detect_all_fields, and between them DocumentChanged.           *)
(***************************************************************************)
\* An installation that lacks at least one of the libraries.
CacheInit == DetectorInit /\ installed \notin {{}, Libraries}

CacheNext ==
    \/ DetectAllFields
    \/ DetectPypdfform
    \/ DetectPymupdf
    \/ DetectPypdf2
    \/ DetectAnnotations
    \/ ProcessAndReturn
    \/ DocumentChanged

CacheSpec == CacheInit /\ [][CacheNext]_vars

(***************************************************************************)
(* The name helpers of EnhancedFieldDetector on their own:                 *)
(* _determine_field_type and _process_field_normalization, given a result  *)
(* whose only field has a name put together from at most MaxPieces pieces: *)
(* the words the typing rules look for, prefixes of the table, a plain     *)
(* letter.                                                                 *)
(***************************************************************************)
MaxPieces == 2      \* most pieces a probed name is made of

NamePieces ==
    { <<"x">>, GroupSuffix, <<"_", "s", "a", "m", "e">>,
      <<"C", "h", "e", "c", "k">>,
      <<"s", "i", "g", "n", "a", "t", "u", "r", "e">>,
      <<"d", "a", "t", "e">>, <<"_", "D", "A", "T", "E">>,
      <<"N", "a", "m", "e">>, <<"o", "p", "t", "i", "o", "n">>,
      FieldPrefixes[1], FieldPrefixes[4], FieldPrefixes[5] }

RECURSIVE Joined(_)
Joined(pieces) ==
    IF pieces = <<>> THEN <<>> ELSE Head(pieces) \o Joined(Tail(pieces))

ProbeNames ==
    {Joined(pieces) : pieces \in UNION {[1..k -> NamePieces] : k \in 1..MaxPieces}}

NamingInit ==
    /\ probe \in {[NoProbe EXCEPT !.field_name = n] : n \in ProbeNames}
    /\ files = [p \in Paths |-> NoFile]
    /\ NoCall
    /\ ValidatorIdle
    /\ DetectorIdle
    /\ AnalyzerFresh
    /\ LoopIdle

\* _determine_field_type(field_name)
DetermineFieldTypeCall ==
    /\ ~probe.typed
    /\ probe' = [probe EXCEPT !.typed = TRUE,
                              !.field_type = DetermineFieldType(probe.field_name)]
    /\ UNCHANGED notNamingVars

\* _process_field_normalization(result), result.all_fields = {field_name}
ProcessFieldNormalization ==
    /\ ~probe.normalized
    /\ \E normalized \in NormalizedFieldsChoices({probe.field_name}) :
        probe' = [probe EXCEPT
                    !.normalized = TRUE,
                    !.field_prefixes = FieldPrefixesOf({probe.field_name}),
                    !.normalized_fields = normalized]
    /\ UNCHANGED notNamingVars

NamingNext ==
    \/ DetermineFieldTypeCall
    \/ ProcessFieldNormalization

NamingSpec == NamingInit /\ [][NamingNext]_vars

(***************************************************************************)
(* The web application (src/src/web/app.py): modify_pdf requests served by *)
(* one asyncio event loop (uvicorn.run, line 466), all with the one        *)
(* PDFModifier of the module.  A coroutine runs until it awaits something  *)
(* that is not ready; the loop then runs another one.  modify_pdf awaits   *)
(* file.read(), which suspends it, and modify_fields, whose only awaits    *)
(* (pdf_modifier.py, lines 136 and 156) are of _apply_field_modifications, *)
(* a coroutine without an await of its own, which never suspend it.        *)
(***************************************************************************)
MaxRequests == 2    \* most modify_pdf requests in flight

\* file.filename of the uploads: it names the temporary document of the
\* request (lines 182-183).
Uploads == {"a.pdf", "b.pdf"}

\* A request that has arrived: its upload and the number of entries of its
\* mapping.
NewRequest(filename, entries) ==
    [pc |-> "start", filename |-> filename, entries |-> entries, idx |-> 0]

LoopInit ==
    /\ loop \in {[running |-> 0, requests |-> r, renames |-> <<>>] :
                   r \in [1..MaxRequests ->
                            {NewRequest(f, n) : f \in Uploads, n \in 1..MaxMappings}]}
    /\ files = [p \in Paths |-> NoFile]
    /\ NoCall
    /\ ValidatorIdle
    /\ DetectorIdle
    /\ AnalyzerFresh
    /\ NamingIdle

\* A loop over the mapping that lets the event loop run another coroutine
\* after every entry.
AfterEntryYields(t) == 0

\* _apply_field_modifications, lines 333-414: the iterations of the loop
\* have no await, the request goes on running after an entry.
AfterEntry(t) == t

\* The event loop starts or resumes a request when it is running none.
RunRequest(t) ==
    /\ loop.running = 0
    /\ loop.requests[t].pc # "done"
    /\ loop' = [loop EXCEPT !.running = t]
    /\ UNCHANGED notLoopVars

\* modify_pdf, lines 170-186: the checks, the temporary paths, and
\* `content = await file.read()`, at which the request is suspended.
AwaitRead(t) ==
    /\ loop.running = t
    /\ loop.requests[t].pc = "start"
    /\ loop' = [loop EXCEPT !.requests[t].pc = "read", !.running = 0]
    /\ UNCHANGED notLoopVars

\* modify_pdf, lines 186-190, and modify_fields up to the loop of the first
\* _apply_field_modifications: the upload is stored, the document loaded,
\* the mapping validated.
EnterModifyFields(t) ==
    /\ loop.running = t
    /\ loop.requests[t].pc = "read"
    /\ loop' = [loop EXCEPT !.requests[t].pc = "mutating"]
    /\ UNCHANGED notLoopVars

\* _apply_field_modifications, lines 333-414: the next entry of the mapping
\* is renamed in the document of the request.
RenameEntry(t) ==
    /\ loop.running = t
    /\ loop.requests[t].pc = "mutating"
    /\ loop.requests[t].idx < loop.requests[t].entries
    /\ loop' = [loop EXCEPT
                    !.requests[t].idx = @ + 1,
                    !.renames = Append(@, [request |-> t,
                                           filename |-> loop.requests[t].filename,
                                           index |-> loop.requests[t].idx + 1]),
                    !.running = AfterEntry(t)]
    /\ UNCHANGED notLoopVars

\* modify_fields, lines 147-195, and modify_pdf, lines 196-210: the output
\* is written, the result returned and the response made; the request is
\* over.
ReturnResponse(t) ==
    /\ loop.running = t
    /\ loop.requests[t].pc = "mutating"
    /\ loop.requests[t].idx = loop.requests[t].entries
    /\ loop' = [loop EXCEPT !.requests[t].pc = "done", !.running = 0]
    /\ UNCHANGED notLoopVars

LoopNext ==
    \E t \in 1..MaxRequests :
        \/ RunRequest(t)
        \/ AwaitRead(t)
        \/ EnterModifyFields(t)
        \/ RenameEntry(t)
        \/ ReturnResponse(t)

LoopSpec == LoopInit /\ [][LoopNext]_vars

(***************************************************************************)
(* Vocabulary of the properties.                                           *)
(***************************************************************************)
\* modify_fields has returned a result.
Done == pc \in {"returned", "failed"}

\* The document the call was given.
SourceDoc == src0.widgets

\* The document at the output location.
OutputDoc == files[output_path].widgets

\* The call ended in one of the except clauses for a file operation.
IOFailed ==
    /\ pc = "failed"
    /\ result.errors[1][1] \in {"io_error", "load_failed", "save_failed"}

\* The access layer renamed every field it was asked to rename.
AllRenamed ==
    hasUpdate /\ \A k \in 1..Len(fates) : fates[k].rename \in {"none", "renamed"}

Targets(m) == {m[i][2] : i \in 1..Len(m)}

HasDuplicateTargets(m) ==
    \E i, j \in 1..Len(m) : i # j /\ m[i][2] = m[j][2]

\* The reserved words of the target naming grammar.
ReservedWords ==
    { <<"c", "l", "a", "s", "s">>, <<"i", "d">>, <<"n", "a", "m", "e">>,
      <<"t", "y", "p", "e">>, <<"v", "a", "l", "u", "e">>,
      <<"c", "h", "e", "c", "k", "e", "d">>,
      <<"s", "e", "l", "e", "c", "t", "e", "d">>,
      <<"d", "i", "s", "a", "b", "l", "e", "d">>,
      <<"r", "e", "a", "d", "o", "n", "l", "y">>,
      <<"r", "e", "q", "u", "i", "r", "e", "d">> }

Delimiters == {"_", "-"}

\* Some underscore/hyphen-delimited segment of s is a reserved word.
HasReservedSegment(s) ==
    \E i \in 1..Len(s) : \E j \in i..Len(s) :
        /\ SubSeq(s, i, j) \in ReservedWords
        /\ i = 1 \/ s[i - 1] \in Delimiters
        /\ j = Len(s) \/ s[j + 1] \in Delimiters

\* s has one of the forms block, block_element, block_element__modifier,
\* block--group, block_element--group.
HasGrammarForm(s) ==
    \E i \in 1..Len(s) : \E j \in i..Len(s) :
        LET element == SubSeq(s, i + 1, j)
            suffix == SubSeq(s, j + 1, Len(s))
        IN /\ IsBemWord(SubSeq(s, 1, i))
           /\ IsOptElement(element)
           /\ \/ suffix = <<>>
              \/ suffix = <<"-", "-", "g", "r", "o", "u", "p">>
              \/ /\ element # <<>>
                 /\ Len(suffix) >= 3
                 /\ suffix[1] = "_"
                 /\ suffix[2] = "_"
                 /\ IsBemWord(SubSeq(suffix, 3, Len(suffix)))

\* The target naming grammar of the rename request.
InNamingGrammar(name) ==
    HasGrammarForm(Chars(name)) /\ ~HasReservedSegment(Chars(name))

\* The names of the model that are in the grammar.
GrammarNames == {n \in Names : InNamingGrammar(n)}

(***************************************************************************)
(* C1.  With validate_mappings enabled, a non-empty mapping that has a key *)
(* naming no field of the document, or two keys sharing a target, or a     *)
(* target outside the naming grammar is aborted before any rename-key      *)
(* call: the result has success = false, errors, no modifications, and no  *)
(* field of the document is renamed.                                       *)
(***************************************************************************)
C1_ViolatesMappingRules(m, doc) ==
    \/ \E i \in 1..Len(m) : m[i][1] \notin DOMAIN doc
    \/ HasDuplicateTargets(m)
    \/ \E i \in 1..Len(m) : m[i][2] \notin GrammarNames

C1_InvalidBatchAborted ==
    (/\ pc \notin {"idle", "load"}
     /\ src0.exists
     /\ validate_mappings
     /\ field_mappings # <<>>
     /\ C1_ViolatesMappingRules(field_mappings, SourceDoc))
    => /\ renameCalls = 0
       /\ pdf \in {NoPdf, SourceDoc}
       /\ files["src"] = src0
       /\ ~files["out"].exists
       /\ Done => /\ ~result.success
                  /\ result.errors # <<>>
                  /\ result.modifications = <<>>

(***************************************************************************)
(* C2.  Every entry old -> new that the result of a written batch reports  *)
(* as a modification names a field of the output: the output has a field   *)
(* named new, has no field named old, and that field has the type, flags,  *)
(* limits and geometry the field old had in the source document.  Stated   *)
(* for the batches that passed validation and in which the access layer    *)
(* renamed every field it was asked to rename, and for the entries whose   *)
(* target differs from the key.                                            *)
(***************************************************************************)
C2_Preserved(e) ==
    /\ e.new \in DOMAIN OutputDoc
    /\ e.old \notin DOMAIN OutputDoc
    /\ e.old \in DOMAIN SourceDoc
    /\ OutputDoc[e.new] = SourceDoc[e.old]

C2_RenamedFieldKeepsProperties ==
    (pc = "returned" /\ validate_mappings /\ AllRenamed) =>
        \A i \in 1..Len(result.modifications) :
            result.modifications[i].old # result.modifications[i].new
                => C2_Preserved(result.modifications[i])

(***************************************************************************)
(* C3.  A mapping of two entries, one whose key names no field of the      *)
(* document and one whose key names a field and whose target is in the     *)
(* naming grammar, gives a result with exactly one error and exactly one   *)
(* modification.                                                           *)
(***************************************************************************)
C3_MissingAndExisting(m, i, j) ==
    /\ Len(m) = 2
    /\ i # j
    /\ m[i][1] \notin DOMAIN SourceDoc
    /\ m[j][1] \in DOMAIN SourceDoc
    /\ m[j][2] \in GrammarNames
    /\ m[j][2] # m[i][1]

C3_Case == \E i, j \in 1..2 : C3_MissingAndExisting(field_mappings, i, j)

\* The claim as the specification states it, for the calls in which no file
\* operation failed and the access layer renamed the existing field.
C3_OneErrorOneModification ==
    (Done /\ ~IOFailed /\ AllRenamed /\ src0.exists /\ C3_Case)
        => /\ Len(result.errors) = 1
           /\ Len(result.modifications) = 1

\* The claim as the code has it: the isolation needs validation disabled
\* and the rename of the existing field to go through; with validation
\* enabled the batch is rejected as a whole.
C3_PartialIsolation ==
    (Done /\ src0.exists /\ C3_Case)
        => /\ validate_mappings
                => /\ Len(result.errors) = 1
                   /\ result.modifications = <<>>
                   /\ renameCalls = 0
           /\ (~validate_mappings /\ pc = "returned" /\ AllRenamed)
                => /\ Len(result.errors) = 1
                   /\ Len(result.modifications) = 1
                   /\ ~result.success

C3_Witness ==
    /\ pc = "returned"
    /\ C3_Case
    /\ ~validate_mappings
    /\ Len(result.errors) = 1
    /\ Len(result.modifications) = 1
    /\ result.modifications[1].new \in DOMAIN OutputDoc

(***************************************************************************)
(* C4.  In _apply_field_modifications a failure of the rename-key call, of *)
(* the check that the new name resolves, or of the property restore for    *)
(* one entry adds an error entry for that entry only, and every later      *)
(* entry is still processed: a failure of one entry never prevents the     *)
(* rename of another.                                                      *)
(***************************************************************************)
PassLog(n) == SelectSeq(log, LAMBDA l : l.pass = n)

\* The first run of _apply_field_modifications has gone through its loop.
FirstPassDone == ret # NoRet

C4_Failed(l) ==
    \/ l.tag \in {"rename_raised", "not_found_after_rename"}
    \/ l.restore_failed

\* The claim as the specification states it, for an access layer that has
\* update_widget_key.
C4_EveryFailureIsAnError ==
    hasUpdate =>
        /\ \A k \in 1..Len(log) : C4_Failed(log[k]) => log[k].outcome = "error"
        /\ FirstPassDone => Len(PassLog(1)) = Len(field_mappings)

\* What the loop has recorded for one entry, in the claim's terms.
C4_Isolated(l) ==
    /\ l.fate.rename = "raise" => l.tag = "rename_raised"
    /\ l.tag \in {"rename_raised", "not_found_after_rename"} => l.outcome = "error"
    /\ l.restore_failed => l.outcome = "modified"
    /\ (l.found /\ hasUpdate /\ l.fate.rename = "renamed") => l.outcome = "modified"
    /\ l.outcome = "break" <=> (l.found /\ ~hasUpdate)

\* The claim as the code has it: while a pass runs, and when the first pass
\* has handed its lists to modify_fields.
C4_FieldIsolation ==
    /\ pc = "apply" =>
        LET p == PassLog(pass)
        IN /\ \A k \in 1..Len(p) : C4_Isolated(p[k])
           /\ Len(errors) + Len(modifications) = Len(p)
           /\ hasUpdate => Len(p) = idx
           /\ \A k \in 1..Len(p) : p[k].outcome = "break" => k = Len(p)
    /\ pc \in {"copy", "write"} =>
        LET p == PassLog(1)
        IN /\ FirstPassDone
           /\ Len(ret.errors) + Len(ret.modifications) = Len(p)
           /\ hasUpdate => Len(p) = Len(field_mappings)

C4_Witness ==
    /\ FirstPassDone
    /\ Len(PassLog(1)) = 2
    /\ PassLog(1)[1].tag = "rename_raised"
    /\ PassLog(1)[2].outcome = "modified"
    /\ PassLog(1)[2].restore_failed
    /\ Len(ret.errors) = 1

(***************************************************************************)
(* C5.  Every result has success = true exactly when its errors list is    *)
(* empty; a written batch in which some entries were renamed and some      *)
(* failed has success = false and a modifications list that holds exactly  *)
(* the entries that were renamed in the output, in mapping order.          *)
(***************************************************************************)
\* The run of _apply_field_modifications whose document is written.
OutputPass == IF preserve_original THEN 2 ELSE 1

Renamed(l) == l.outcome = "modified"

RenamedEntries(n) ==
    LET r == SelectSeq(PassLog(n), Renamed)
    IN [k \in 1..Len(r) |-> <<r[k].old, r[k].new>>]

ReportedEntries ==
    [k \in 1..Len(result.modifications) |->
        <<result.modifications[k].old, result.modifications[k].new>>]

C5_SuccessIffNoErrors ==
    Done =>
        /\ result.success <=> result.errors = <<>>
        /\ pc = "returned" =>
            /\ ReportedEntries = RenamedEntries(OutputPass)
            /\ Len(result.errors) = Len(PassLog(OutputPass)) - Len(ReportedEntries)

C5_Witness ==
    /\ pc = "returned"
    /\ preserve_original
    /\ result.modifications # <<>>
    /\ result.errors # <<>>
    /\ ~result.success

(***************************************************************************)
(* C6.  A written batch that passed validation and in which the access     *)
(* layer renamed every field it was asked to rename has one modification   *)
(* per mapping entry, and the output has as many fields as the source:     *)
(* field_count_after, when the verification could read the output, equals  *)
(* field_count_before.                                                     *)
(***************************************************************************)
\* The verification re-opened the output and counted its fields.
VerifiedOutput == result.field_count_after = Cardinality(DOMAIN OutputDoc)

C6_RenamingKeepsFieldCount ==
    (pc = "returned" /\ validate_mappings /\ AllRenamed) =>
        /\ Len(result.modifications) = Len(field_mappings)
        /\ Cardinality(DOMAIN OutputDoc) = Cardinality(DOMAIN SourceDoc)
        /\ result.field_count_before = Cardinality(DOMAIN SourceDoc)
        /\ VerifiedOutput => result.field_count_after = result.field_count_before

(***************************************************************************)
(* C7.  For a written batch that passed validation, every field of the     *)
(* source document whose name is not a key of the mapping is in the output *)
(* under the same name and with the same properties.                       *)
(***************************************************************************)
C7_UnmappedFieldsUnchanged ==
    (pc = "returned" /\ validate_mappings /\ AllRenamed) =>
        \A n \in DOMAIN SourceDoc \ Keys(field_mappings) :
            /\ n \in DOMAIN OutputDoc
            /\ OutputDoc[n] = SourceDoc[n]

(***************************************************************************)
(* C8.  With preserve_original set, the source document is the same in     *)
(* every state of the call (after success, after a validation abort, after *)
(* a per-field or file failure, and between any two steps), and no file    *)
(* other than the one at the output location is written.                   *)
(***************************************************************************)
C8_SourcePreserved ==
    (pc # "idle" /\ preserve_original) =>
        /\ files["src"] = src0
        /\ \A p \in Paths \ {"src", output_path} : ~files[p].exists

C8_Witness ==
    /\ preserve_original
    /\ pc = "returned"
    /\ result.modifications # <<>>
    /\ output_path = "out"
    /\ files["out"].exists
    /\ files["out"] # src0
    /\ files["src"] = src0

(***************************************************************************)
(* C9.  modify_fields never raises: every step of a call either goes on or *)
(* returns a result, and a missing source file, an empty mapping, a        *)
(* failure to load the document and a failure to write the output each     *)
(* give a result with success = false, at least one error and no           *)
(* modifications.                                                          *)
(***************************************************************************)
C9_FatalResult ==
    /\ ~Done => ENABLED Next
    /\ (pc # "idle" /\ (~src0.exists \/ field_mappings = <<>>)) => pc = "failed"
    /\ pc = "failed" =>
        /\ ~result.success
        /\ Len(result.errors) >= 1
        /\ result.modifications = <<>>
    /\ pc = "returned" =>
        (src0.exists /\ field_mappings # <<>> /\ files[output_path].exists)

C9_Witness ==
    /\ pc = "failed"
    /\ result.errors[1][1] = "save_failed"
    /\ FirstPassDone
    /\ ret.modifications # <<>>
    /\ result.modifications = <<>>

(***************************************************************************)
(* C10.  A failure of the bulk commit (commit_widget_key_updates raising   *)
(* or missing) is a warning of the result and never an error: success and  *)
(* the modifications are what the renames made them, and the batch goes on *)
(* to write and verify the output.                                         *)
(***************************************************************************)
CommitFailed == commitFate \in {"raise", "missing"}

C10_CommitFailureIsWarning ==
    CommitFailed =>
        /\ FirstPassDone
        /\ Len(ret.warnings) = 1
        /\ \A k \in 1..Len(ret.errors) :
             ret.errors[k][1] \in {"not_found", "no_update_method",
                                   "rename_raised", "not_found_after_rename"}
        /\ pc = "failed" => result.errors[1][1] = "save_failed"
        /\ pc = "returned" =>
            /\ result.warnings = ret.warnings
            /\ result.errors = ret.errors
            /\ result.modifications = ret.modifications
            /\ result.success <=> (\A k \in 1..Len(log) : Renamed(log[k]))

C10_Witness ==
    /\ pc = "returned"
    /\ commitFate = "raise"
    /\ result.success
    /\ result.modifications # <<>>
    /\ result.warnings # <<>>
    /\ files[output_path].exists

(***************************************************************************)
(* C12.  _is_valid_bem_name accepts a name exactly when the name has one   *)
(* of the forms block, block_element, block_element__modifier,             *)
(* block--group, block_element--group, each part matching                  *)
(* [a-z][a-z0-9-]*, and none of its underscore/hyphen-delimited segments   *)
(* is a reserved word.                                                     *)
(***************************************************************************)
C12_AcceptsExactlyTheGrammar ==
    isValid # "pending" =>
        (isValid = "True" <=>
            HasGrammarForm(bemName) /\ ~HasReservedSegment(bemName))

(***************************************************************************)
(* C13.  _is_valid_bem_name rejects the empty name, every name without a   *)
(* single-underscore separator, every name with an uppercase letter and    *)
(* every name with more than one single-underscore separator.              *)
(***************************************************************************)
\* The places of s that hold an underscore with no underscore next to it.
SingleUnderscores(s) ==
    {i \in 1..Len(s) :
        /\ s[i] = "_"
        /\ IF i = 1 THEN TRUE ELSE s[i - 1] # "_"
        /\ IF i = Len(s) THEN TRUE ELSE s[i + 1] # "_"}

C13_MustBeRejected(s) ==
    \/ s = <<>>
    \/ SingleUnderscores(s) = {}
    \/ \E i \in 1..Len(s) : s[i] \in UpperChars
    \/ Cardinality(SingleUnderscores(s)) > 1

C13_RejectsWhatTheTestsReject ==
    (isValid # "pending" /\ C13_MustBeRejected(bemName)) => isValid = "False"

(***************************************************************************)
(* C14.  _validate_field_mappings collects every violation: its result     *)
(* holds one error for each key that names no field of the document, an    *)
(* error when two keys share a target and an error when a target is        *)
(* outside the naming grammar; it holds no error exactly when every key    *)
(* names a field, the targets are pairwise distinct and every target is in *)
(* the naming grammar.                                                     *)
(***************************************************************************)
\* modify_fields got errors from _validate_field_mappings and raised.
C14_Rejected ==
    /\ pc = "failed"
    /\ field_mappings # <<>>
    /\ result.errors[1][1] = "invalid_mappings"

\* modify_fields got no error from _validate_field_mappings and went on.
C14_Accepted == validate_mappings /\ pass >= 1

C14_Count(list, tag) ==
    Cardinality({i \in 1..Len(list) : list[i][1] = tag})

C14_AllViolationsListed(list, m, doc) ==
    /\ \A k \in Keys(m) :
        Cardinality({i \in 1..Len(list) : list[i] = <<"source_not_found", k>>})
            = (IF k \in DOMAIN doc THEN 0 ELSE 1)
    /\ C14_Count(list, "duplicate_targets")
            = (IF HasDuplicateTargets(m) THEN 1 ELSE 0)
    /\ C14_Count(list, "invalid_bem_names")
            = (IF Targets(m) \subseteq GrammarNames THEN 0 ELSE 1)

C14_CollectsAllViolations ==
    /\ C14_Rejected =>
        C14_AllViolationsListed(result.errors[1][2], field_mappings, SourceDoc)
    /\ C14_Accepted =>
        C14_AllViolationsListed(<<>>, field_mappings, SourceDoc)

(***************************************************************************)
(* Vocabulary of the properties of detection.                              *)
(***************************************************************************)
\* A detect_all_fields call has returned and none is under way.
Detected == detPc = "idle" /\ returned # <<>>

\* The result of the last call that returned.
LastResult == returned[Len(returned)]

StrategySet == Elements(Strategies)

\* entries[i] is about the strategy: it is tagged with the strategy's name.
Identifies(entry, strategy) == entry[1] = strategy

(***************************************************************************)
(* C11.  A mapping key is accepted by rename validation if and only if the *)
(* field it names is in the accessible set of the detection of the same    *)
(* document: a field that is accessible through its prefix-stripped name   *)
(* is accepted, and no field outside the accessible set is.                *)
(***************************************************************************)
\* pdf.widgets of the PdfWrapper of the document the detection looked at.
C11_Widgets == [n \in Elements(LastResult.pypdfform_fields) |-> SrcWidget("F")]

\* _validate_field_mappings has no error for a mapping with this key.
C11_KeyAccepted(key) ==
    ValidateFieldMappings(C11_Widgets, << <<key, "a_b">> >>) = <<>>

C11_AccessibleIsTheGate ==
    (Detected /\ outcomes["pypdfform"] = "returned") =>
        \A f \in DetNames :
            C11_KeyAccepted(f) <=> f \in LastResult.accessible_fields

(***************************************************************************)
(* C15.  Every one of the four strategies is run exactly once per          *)
(* uncached detect_all_fields call, whatever the other strategies did, and *)
(* every name a strategy returned is in the result.                        *)
(***************************************************************************)
C15_EveryStrategyRunsOnce ==
    /\ \A s \in StrategySet : strategyRuns[s] <= uncachedCalls
    /\ detPc = "idle" => \A s \in StrategySet : strategyRuns[s] = uncachedCalls
    /\ Detected =>
        \A s \in StrategySet :
            Elements(returnedFields[s]) \subseteq LastResult.all_fields

\* A strategy returned names although the strategies before it failed.
C15_Witness ==
    /\ Detected
    /\ outcomes["pypdfform"] = "raised"
    /\ outcomes["pymupdf"] = "unavailable"
    /\ outcomes["pypdf2"] = "returned"
    /\ returnedFields["pypdf2"] # <<>>

(***************************************************************************)
(* C16.  Every strategy failure shows in the result: a strategy that       *)
(* raised while it enumerated the fields has an entry in detection_errors  *)
(* that names it; a strategy whose library is unavailable gives no field,  *)
(* has an entry in detection_warnings and none in detection_errors.        *)
(***************************************************************************)
C16_HasEntry(entries, strategy) ==
    \E i \in 1..Len(entries) : Identifies(entries[i], strategy)

C16_FailuresAreLogged ==
    Detected =>
        \A s \in StrategySet :
            /\ outcomes[s] = "raised" =>
                C16_HasEntry(LastResult.detection_errors, s)
            /\ outcomes[s] = "unavailable" =>
                /\ returnedFields[s] = <<>>
                /\ C16_HasEntry(LastResult.detection_warnings, s)
                /\ ~C16_HasEntry(LastResult.detection_errors, s)

(***************************************************************************)
(* C17.  After detect_all_fields a name is in all_fields if and only if a  *)
(* strategy returned exactly that name; field_sources has an entry for     *)
(* every such name and no other, and the entry lists the strategies that   *)
(* returned the name, each of them once.                                   *)
(***************************************************************************)
C17_ReturnedBy(f) == {s \in StrategySet : f \in Elements(returnedFields[s])}

C17_Once(sources, s) ==
    Cardinality({i \in 1..Len(sources) : sources[i] = s}) = 1

C17_UnionWithProvenance ==
    Detected =>
        /\ LastResult.all_fields = {f \in DetNames : C17_ReturnedBy(f) # {}}
        /\ DOMAIN LastResult.field_sources = LastResult.all_fields
        /\ \A f \in LastResult.all_fields :
            /\ Elements(LastResult.field_sources[f]) = C17_ReturnedBy(f)
            /\ \A s \in C17_ReturnedBy(f) :
                C17_Once(LastResult.field_sources[f], s)

\* A name that three strategies returned, next to a name only one returned.
C17_Witness ==
    /\ Detected
    /\ \E f, g \in LastResult.all_fields :
        /\ Cardinality(C17_ReturnedBy(f)) = 3
        /\ Cardinality(C17_ReturnedBy(g)) = 1

(***************************************************************************)
(* C18.  Detection is memoized per document: a second detect_all_fields    *)
(* call for the document returns the result the first call returned, runs  *)
(* no strategy and does not open the document.  Extraction is memoized in  *)
(* the same way: once an extract_form_fields call has returned for the     *)
(* document, every call returns the list of the cache, and PdfWrapper has  *)
(* loaded the document for no call but the first that returned and those   *)
(* that raised before it.                                                  *)
(***************************************************************************)
C18_Fetched == {i \in 1..Len(extracted) : extracted[i].status = "returned"}

C18_Loads == {i \in 1..Len(extracted) : extracted[i].loaded}

C18_SecondCallIsCached ==
    /\ returned # <<>> =>
        /\ detPc = "idle"
        /\ Len(returned) = detCalls
        /\ \A i \in 1..Len(returned) : returned[i] = returned[1]
        /\ \A s \in StrategySet : strategyRuns[s] = 1
        /\ opened = Cardinality({i \in 1..Len(Strategies) :
                                    LibraryOf(Strategies[i]) \in installed})
    /\ C18_Fetched # {} =>
        /\ \A key \in DetPaths :
            /\ FieldCacheHit(field_cache, key)
            /\ \A i \in C18_Fetched : extracted[i].fields = field_cache[key]
        /\ Cardinality(C18_Fetched) =
               Len(extracted) - Cardinality(C18_Loads) + 1

\* The second call returned a result that has fields.
C18_Witness ==
    /\ detPc = "idle"
    /\ detCalls = 2
    /\ Len(returned) = 2
    /\ returned[2].all_fields # {}

(***************************************************************************)
(* C19.  No radio group that radio-group inference emits has fewer than 2  *)
(* members.                                                                *)
(***************************************************************************)
C19_NoGroupUnderTwoMembers ==
    Detected =>
        \A g \in DOMAIN LastResult.radio_groups :
            Cardinality(LastResult.radio_groups[g]) >= 2

(***************************************************************************)
(* C20.  When detect_radio_groups has returned, no field of a group found  *)
(* by naming pattern is a member of a returned group that is from the      *)
(* position or the label strategy, and no field of a returned position     *)
(* group is a member of a returned label group.                            *)
(***************************************************************************)
C20_PatternFields ==
    UNION {Elements(radioCall.groups_by_pattern[i].fields) :
             i \in 1..Len(radioCall.groups_by_pattern)}

C20_EmittedBy(strategy) ==
    UNION {radioCall.combined_groups[i].fields :
             i \in {j \in 1..Len(radioCall.combined_groups) :
                      radioCall.combined_groups[j].strategy = strategy}}

C20_StrategyPriorityIsKept ==
    radioCall.pc = "idle" =>
        /\ C20_PatternFields
              \cap (C20_EmittedBy("position") \cup C20_EmittedBy("label")) = {}
        /\ C20_EmittedBy("position") \cap C20_EmittedBy("label") = {}

(***************************************************************************)
(* C24: _determine_field_type gives a name the type of the first rule of   *)
(* the fixed order that the name matches: ends with "--group" gives        *)
(* radio_group; contains a checkbox keyword gives checkbox; contains       *)
(* "signature" but neither "date" nor "name" gives signature; contains     *)
(* "date" gives date; contains a dividend, payment, billing or option      *)
(* keyword gives option; no rule gives text.  Every name gets one type.    *)
(***************************************************************************)
C24_Word(name, word) == Contains(Lower(name), word)

C24_Rules(name) ==
    << [type |-> "radio_group", matches |-> EndsWith(name, GroupSuffix)],
       [type |-> "checkbox",
        matches |-> \/ C24_Word(name, <<"_", "s", "a", "m", "e">>)
                    \/ C24_Word(name, <<"a", "d", "d", "r", "_", "s", "a", "m", "e">>)
                    \/ C24_Word(name, <<"c", "h", "e", "c", "k">>)],
       [type |-> "signature",
        matches |-> /\ C24_Word(name, <<"s", "i", "g", "n", "a", "t", "u", "r", "e">>)
                    /\ ~C24_Word(name, <<"d", "a", "t", "e">>)
                    /\ ~C24_Word(name, <<"n", "a", "m", "e">>)],
       [type |-> "date", matches |-> C24_Word(name, <<"d", "a", "t", "e">>)],
       [type |-> "option",
        matches |-> \/ C24_Word(name, <<"d", "i", "v", "i", "d", "e", "n", "d">>)
                    \/ C24_Word(name, <<"p", "a", "y", "m", "e", "n", "t">>)
                    \/ C24_Word(name, <<"b", "i", "l", "l", "i", "n", "g">>)
                    \/ C24_Word(name, <<"o", "p", "t", "i", "o", "n">>)] >>

C24_Matching(name) == {i \in 1..5 : C24_Rules(name)[i].matches}

C24_FirstMatchingRuleDecides ==
    probe.typed =>
        LET matching == C24_Matching(probe.field_name)
        IN /\ probe.field_type \in {"radio_group", "checkbox", "signature",
                                    "date", "option", "text"}
           /\ IF matching = {}
              THEN probe.field_type = "text"
              ELSE \E i \in matching :
                      /\ \A j \in matching : i <= j
                      /\ probe.field_type = C24_Rules(probe.field_name)[i].type

\* A name that matches the checkbox rule and the date rule was typed.
C24_Witness ==
    /\ probe.typed
    /\ {2, 4} \subseteq C24_Matching(probe.field_name)
    /\ 1 \notin C24_Matching(probe.field_name)
    /\ probe.field_type = "checkbox"

(***************************************************************************)
(* C26: normalization strips from a name the first prefix of the table     *)
(* that the name starts with, and records that prefix for the field; a     *)
(* name that starts with no prefix of the table is its own normalized name *)
(* and has no recorded prefix.  One prefix is stripped, no more.           *)
(***************************************************************************)
C26_Starts(name) ==
    {i \in 1..Len(FieldPrefixes) : StartsWith(name, FieldPrefixes[i])}

C26_StripsFirstTablePrefix ==
    probe.normalized =>
        LET name == probe.field_name
            starts == C26_Starts(name)
        IN IF starts = {}
           THEN /\ DOMAIN probe.normalized_fields = {name}
                /\ probe.normalized_fields[name] = name
                /\ DOMAIN probe.field_prefixes = {}
           ELSE \E i \in starts :
                   /\ \A j \in starts : i <= j
                   /\ DOMAIN probe.field_prefixes = {name}
                   /\ probe.field_prefixes[name] = FieldPrefixes[i]
                   /\ \E n \in DOMAIN probe.normalized_fields :
                        /\ DOMAIN probe.normalized_fields = {n}
                        /\ FieldPrefixes[i] \o n = name
                        /\ probe.normalized_fields[n] = name

\* A name of two prefixes was normalized: the second prefix stays.
C26_Witness ==
    /\ probe.normalized
    /\ \E n \in DOMAIN probe.normalized_fields :
        /\ C26_Starts(n) # {}
        /\ n # probe.field_name
        /\ probe.normalized_fields[n] = probe.field_name

(***************************************************************************)
(* C25: after detect_all_fields a field is in accessible_fields if and     *)
(* only if its name, or its name without the first prefix of the table it  *)
(* starts with, is among the names the PyPDFForm strategy returned; when   *)
(* that strategy returned nothing, no field is accessible.                 *)
(***************************************************************************)
C25_Primary == Elements(returnedFields["pypdfform"])

C25_Stripped(f) ==
    LET starts == {i \in 1..Len(FieldPrefixes) : StartsWith(f, FieldPrefixes[i])}
        first == CHOOSE i \in starts : \A j \in starts : i <= j
    IN IF starts = {} THEN f
       ELSE SubSeq(f, Len(FieldPrefixes[first]) + 1, Len(f))

C25_AccessibleIffPrimaryHasIt ==
    Detected =>
        /\ LastResult.accessible_fields \subseteq LastResult.all_fields
        /\ \A f \in LastResult.all_fields :
            f \in LastResult.accessible_fields
                <=> (f \in C25_Primary \/ C25_Stripped(f) \in C25_Primary)
        /\ C25_Primary = {} => LastResult.accessible_fields = {}

\* A field that only another strategy returned is accessible through its
\* stripped name.
C25_Witness ==
    /\ Detected
    /\ \E f \in LastResult.accessible_fields :
        f \notin C25_Primary /\ C25_Stripped(f) \in C25_Primary

(***************************************************************************)
(* C30: after _process_field_normalization every detected field can be     *)
(* found again in normalized_fields: each name of all_fields is the value  *)
(* of exactly one entry of normalized_fields, also when two detected names *)
(* differ by their prefix only.                                            *)
(***************************************************************************)
C30_EntriesOf(res, f) ==
    {n \in DOMAIN res.normalized_fields : res.normalized_fields[n] = f}

C30_EveryFieldIsRecoverable ==
    Detected =>
        \A f \in LastResult.all_fields :
            Cardinality(C30_EntriesOf(LastResult, f)) = 1

(***************************************************************************)
(* C29: once detect_all_fields has returned for a path, every later call   *)
(* of the same detector for that path returns that cached result and runs  *)
(* no strategy, also when the file at the path was written in between: the *)
(* cache is keyed by the path alone and no entry is ever dropped.          *)
(***************************************************************************)
C29_CacheIsNeverInvalidated ==
    returned # <<>> =>
        /\ detPc = "idle"
        /\ \A s \in StrategySet : strategyRuns[s] = 1
        /\ \A i \in 1..Len(returned) :
            /\ returned[i] = returned[1]
            /\ detection_cache[cache_key] = returned[i]

\* A call that found the file changed since the first call has returned.
C29_Witness ==
    /\ Len(returned) = 2
    /\ document.seen[2] > document.seen[1]

(***************************************************************************)
(* C28: a field name is a member of at most one of the radio groups that   *)
(* RadioGroupDetector.detect_radio_groups returns: the groups are pairwise *)
(* disjoint.                                                               *)
(***************************************************************************)
C28_Groups == radioCall.combined_groups

C28_GroupsAreDisjoint ==
    radioCall.pc = "idle" =>
        \A i, j \in 1..Len(C28_Groups) :
            i # j => C28_Groups[i].fields \cap C28_Groups[j].fields = {}

(***************************************************************************)
(* C27: with preserve_original set, the result modify_fields returns       *)
(* describes the output that was written: the output has the new name of   *)
(* every entry of modifications, and every error of an entry and every     *)
(* warning of the commit that came up while the written document was made  *)
(* is among the errors or the warnings of the result.                      *)
(***************************************************************************)
\* modify_fields returned the result of a run that wrote the copy.
C27_CopyWritten == pc = "returned" /\ preserve_original

C27_NewNames == {result.modifications[k].new : k \in 1..Len(result.modifications)}

C27_ResultDescribesOutput ==
    C27_CopyWritten =>
        /\ C27_NewNames \subseteq DOMAIN OutputDoc
        /\ Elements(errors) \subseteq Elements(result.errors)
        /\ Elements(warnings) \subseteq Elements(result.warnings)

(***************************************************************************)
(* C23: for each mapping entry processed on a document, the properties of  *)
(* the field are snapshotted once, before rename-key is called for the     *)
(* entry, and the snapshot is put back once, after the new name was found  *)
(* to resolve; no entry is renamed without a snapshot taken before, and no *)
(* snapshot is put back before the rename.                                 *)
(***************************************************************************)
C23_Ops(l) == EntryOps(l.found, hasUpdate, l.fate.rename, l.outcome = "modified")

C23_At(ops, op) == {i \in 1..Len(ops) : ops[i] = op}

C23_Before(ops, first, second) ==
    \A j \in C23_At(ops, second) : \E i \in C23_At(ops, first) : i < j

C23_InOrder(l) ==
    LET ops == C23_Ops(l)
    IN /\ Cardinality(C23_At(ops, "snapshot")) = (IF l.found THEN 1 ELSE 0)
       /\ Cardinality(C23_At(ops, "rename")) = (IF l.called THEN 1 ELSE 0)
       /\ Cardinality(C23_At(ops, "restore")) =
            (IF l.outcome = "modified" THEN 1 ELSE 0)
       /\ l.restore_failed => C23_At(ops, "restore") # {}
       /\ C23_Before(ops, "snapshot", "rename")
       /\ C23_Before(ops, "rename", "verify")
       /\ C23_Before(ops, "verify", "restore")

C22_Committed == commitFate # "none"

\* The batch is in the loop over the mapping, with an entry to process.
C22_Mutating == pc = "apply" /\ idx < Len(field_mappings)

\* The batch was rejected: it ended with the errors of the validation.
C22_Aborted == pc = "failed" /\ result.errors[1][1] = "invalid_mappings"

C22_NoRenameBeforeValidation ==
    pc \in {"idle", "load", "validate"} => (renameCalls = 0 /\ log = <<>>)

C22_CommitOnceAfterLastEntry ==
    C22_Committed =>
        /\ ~C22_Mutating
        /\ \A i \in 1..Len(field_mappings) :
            \E k \in 1..Len(log) : log[k].pass = 1 /\ log[k].index = i

C22_VerifiedAfterWritten ==
    pc = "returned" =>
        /\ files[output_path] = FileOf(WrittenWrapper)
        /\ field_count_after \in {0, Cardinality(DOMAIN OutputDoc)}

C22_AbortedFromValidatingOnly ==
    C22_Aborted => (renameCalls = 0 /\ log = <<>> /\ ~C22_Committed)

C22_StagesInOrder ==
    /\ C22_NoRenameBeforeValidation
    /\ C22_CommitOnceAfterLastEntry
    /\ C22_VerifiedAfterWritten
    /\ C22_AbortedFromValidatingOnly

\* The claim as the code has it.  A run of _apply_field_modifications is
\* the loop over the mapping and then the bulk commit; modify_fields makes
\* one run on the document it loaded and, with preserve_original, a second
\* run on the copy.
C22_RunCommitted(n) ==
    IF n = 1 THEN FirstPassDone ELSE pass = 2 /\ pc # "apply"

\* The loop of the run took the entries in mapping order and has ended: at
\* the last entry, or at the entry it stopped at for want of a rename-key
\* method.
C22_LoopEnded(n) ==
    LET p == PassLog(n)
    IN /\ p # <<>>
       /\ \A k \in 1..Len(p) : p[k].index = k
       /\ \/ Len(p) = Len(field_mappings)
          \/ p[Len(p)].outcome = "break"

C22_RunsInOrder ==
    /\ C22_NoRenameBeforeValidation
    /\ \A n \in 1..2 : C22_RunCommitted(n) => C22_LoopEnded(n)
    /\ (C22_RunCommitted(1) /\ pass = 1) => pc # "apply"
    /\ pass = 2 => (preserve_original /\ C22_RunCommitted(1))
    /\ pc = "returned" => C22_RunCommitted(IF preserve_original THEN 2 ELSE 1)
    /\ C22_VerifiedAfterWritten
    /\ C22_AbortedFromValidatingOnly

\* A batch with preserve_original has returned: both runs renamed a field
\* and committed.
C22_Witness ==
    /\ pc = "returned"
    /\ preserve_original
    /\ C22_RunCommitted(2)
    /\ \A n \in 1..2 : \E k \in 1..Len(log) : log[k].pass = n /\ log[k].called

(***************************************************************************)
(* C21: within a batch the mapping entries are renamed one after another,  *)
(* in mapping order, and two modify_fields batches on the same document    *)
(* never interleave their renames: at any moment at most one batch is      *)
(* mutating a given document.                                              *)
(***************************************************************************)
\* The rename calls made on the document, in the order they were made.
C21_RenamesOn(filename) ==
    SelectSeq(loop.renames, LAMBDA r : r.filename = filename)

\* The batches that are in their loop over the mapping, on the document.
C21_MutatingOn(filename) ==
    {t \in DOMAIN loop.requests :
        /\ loop.requests[t].pc = "mutating"
        /\ loop.requests[t].filename = filename}

C21_InMappingOrder(calls) ==
    \A k \in 1..Len(calls) :
        IF k > 1 /\ calls[k - 1].request = calls[k].request
        THEN calls[k].index = calls[k - 1].index + 1
        ELSE /\ calls[k].index = 1
             /\ \A j \in 1..(k - 1) : calls[j].request # calls[k].request

C21_BatchesDoNotInterleave ==
    \A f \in Uploads :
        /\ Cardinality(C21_MutatingOn(f)) <= 1
        /\ C21_InMappingOrder(C21_RenamesOn(f))

\* Two batches on the same document have both renamed two entries.
C21_Witness ==
    \E t, u \in DOMAIN loop.requests :
        /\ t # u
        /\ loop.requests[t].filename = loop.requests[u].filename
        /\ loop.requests[t].idx = 2
        /\ loop.requests[u].idx = 2

====
